---------------------------- MODULE Spec2Model ----------------------------
(***************************************************************************)
(* A model of the core of the mt-kahypar hypergraph partitioner:           *)
(*   - the hypergraph with its partition overlay (moves, contraction),      *)
(*   - the parallel clustering coarsener (matchVertices),                   *)
(*   - the deep-multilevel driver with its recursive bipartitioning tree.   *)
(* Each part has its own specification over the shared variables; the      *)
(* parts that are idle in a specification keep their initial value.        *)
(***************************************************************************)
EXTENDS Integers, Sequences, FiniteSets, TLC

VARIABLES
  hg,     \* topology: node weights, enabled flags, pin lists, incident nets
  part,   \* partition overlay: part ids, block weights/sizes, pin counts
  thr,    \* per-thread position inside a move of the overlay
  aux,    \* history: move budget, snapshots for round trips
  co,     \* coarsener: matching state, partner, cluster ids, cluster weights
  cthr,   \* per-thread position inside matchVertices
  dm,     \* deep-multilevel driver
  fl,     \* flow-hypergraph builder: flow problem under construction
  rb      \* recursive bipartitioning tree under construction and its queries

vars == <<hg, part, thr, aux, co, cthr, dm, fl, rb>>

\* --------------------------------------------------------------- bounds
NumNodes == 3
NumBlocks == 2
NumThreads == 2
MaxNodeWeight == 2
MaxMoves == 2
MaxContractions == 3
NumCoarseningThreads == 3
MaxAllowedNodeWeight == 3
MaxShrinkFactor == 3
MaxK == 4
MaxDeepNodes == 4
NumDeepThreads == 3
MaxContractionLimitMultiplier == 1

kInvalidPartition == -1

Nodes == 0 .. (NumNodes - 1)
NumEdges == NumNodes
Edges == 0 .. (NumEdges - 1)
Blocks == 0 .. (NumBlocks - 1)
Threads == 1 .. NumThreads

\* --------------------------------------------------------------- helpers
RECURSIVE SumSet(_, _)
SumSet(S, f) ==
  IF S = {} THEN 0
  ELSE LET x == CHOOSE y \in S : TRUE IN f[x] + SumSet(S \ {x}, f)

Range(s) == { s[i] : i \in 1 .. Len(s) }

Min(a, b) == IF a < b THEN a ELSE b
Max(a, b) == IF a > b THEN a ELSE b

RECURSIVE SortedSeq(_)
SortedSeq(S) ==
  IF S = {} THEN << >>
  ELSE LET m == CHOOSE x \in S : \A y \in S : x <= y
       IN <<m>> \o SortedSeq(S \ {m})

\* ------------------------------------------------ the input hypergraph
\* Net e < NumNodes-1 joins the nodes e and e+1; the last net holds every node.
InitPins(e) ==
  IF e < NumNodes - 1 THEN <<e, e + 1>> ELSE [i \in 1 .. NumNodes |-> i - 1]

InitIncident(u) == SortedSeq({ e \in Edges : u \in Range(InitPins(e)) })

WeightChoices ==
  { [u \in Nodes |-> 1], [u \in Nodes |-> 1 + (u % MaxNodeWeight)] }

InitHypergraph(w) ==
  [ weight   |-> w,
    enabled  |-> [u \in Nodes |-> TRUE],
    pins     |-> [e \in Edges |-> InitPins(e)],
    size     |-> [e \in Edges |-> Len(InitPins(e))],
    incident |-> [u \in Nodes |-> InitIncident(u)] ]

\* valid pins of net e: the first size[e] entries of its incidence array
pins(h, e) == { h.pins[e][i] : i \in 1 .. h.size[e] }
incidentEdges(h, u) == Range(h.incident[u])
nodeWeight(h, u) == h.weight[u]
nodeIsEnabled(h, u) == h.enabled[u]
EnabledNodes(h) == { u \in Nodes : h.enabled[u] }

\* ------------------------------------------------ the partition overlay
PinsInBlock(h, pid, e, b) == { u \in pins(h, e) : h.enabled[u] /\ pid[u] = b }

\* setNodePart for every node followed by updateGlobalPartInfos
InitPartition(h, pid) ==
  [ id     |-> pid,
    weight |-> [b \in Blocks |->
                 SumSet({ u \in EnabledNodes(h) : pid[u] = b }, h.weight)],
    size   |-> [b \in Blocks |->
                 Cardinality({ u \in EnabledNodes(h) : pid[u] = b })],
    pincnt |-> [e \in Edges |-> [b \in Blocks |->
                 Cardinality(PinsInBlock(h, pid, e, b))]],
    conn   |-> [e \in Edges |->
                 { b \in Blocks : PinsInBlock(h, pid, e, b) # {} }] ]

partID(p, u) == p.id[u]
partWeight(p, b) == p.weight[b]
partSize(p, b) == p.size[b]
pinCountInPart(p, e, b) == p.pincnt[e][b]
connectivity(p, e) == Cardinality(p.conn[e])
connectivitySet(p, e) == p.conn[e]


\* ---- Hypergraph::updatePartInfo, one operator per statement
\* faulty variant: the new block of u is never stored
setPartInfo_Stale(p, u, to) == p
setPartInfo(p, u, to) == [p EXCEPT !.id[u] = to]
storePartWeight(p, b, v) == [p EXCEPT !.weight[b] = v]
storePartSize(p, b, v) == [p EXCEPT !.size[b] = v]

\* _part_info[from].weight -= w  etc.: the value a thread writes back, computed
\* from the value it loaded (the fields are plain integers, not atomics)
WeightAfterLeave(loaded, w) == loaded - w
SizeAfterLeave(loaded) == loaded - 1
\* faulty variant: the joining node is weighed one unit too heavy
WeightAfterJoin_Off(loaded, w) == loaded + w + 1
WeightAfterJoin(loaded, w) == loaded + w
SizeAfterJoin(loaded) == loaded + 1

updatePartInfo(h, p, u, from, to) ==
  LET w  == nodeWeight(h, u)
      p1 == setPartInfo(p, u, to)
      p2 == storePartWeight(p1, from, WeightAfterLeave(p1.weight[from], w))
      p3 == storePartSize(p2, from, SizeAfterLeave(p2.size[from]))
      p4 == storePartWeight(p3, to, WeightAfterJoin(p3.weight[to], w))
  IN storePartSize(p4, to, SizeAfterJoin(p4.size[to]))

\* ---- pin counts and connectivity sets: one atomic update per (e, block) cell
decrementPinCountInPart(p, e, b) ==
  LET c == p.pincnt[e][b] - 1
  IN [p EXCEPT !.pincnt[e][b] = c,
               !.conn[e] = IF c = 0 THEN @ \ {b} ELSE @]

\* faulty variant: the connectivity set misses the block that gains its first pin
incrementPinCountInPart_NoConn(p, e, b) ==
  [p EXCEPT !.pincnt[e][b] = @ + 1]

incrementPinCountInPart(p, e, b) ==
  LET c == p.pincnt[e][b] + 1
  IN [p EXCEPT !.pincnt[e][b] = c,
               !.conn[e] = IF c = 1 THEN @ \cup {b} ELSE @]

RECURSIVE updatePinCounts(_, _, _, _, _, _)
updatePinCounts(h, p, u, from, to, i) ==
  IF i > Len(h.incident[u]) THEN p
  ELSE LET e == h.incident[u][i]
       IN updatePinCounts(h,
            incrementPinCountInPart(decrementPinCountInPart(p, e, from), e, to),
            u, from, to, i + 1)

\* the whole move, as one thread executes it with nobody interfering
changeNodePart(h, p, u, from, to) ==
  updatePinCounts(h, updatePartInfo(h, p, u, from, to), u, from, to, 1)

\* ------------------------------------------------ idle values
IdleThread == [pc |-> "idle", node |-> 0, from |-> 0, to |-> 0, reg |-> 0, idx |-> 0]
ThrIdle == [t \in Threads |-> IdleThread]
AuxIdle == [moves |-> 0, prev |-> << >>, snap |-> << >>, last |-> << >>,
            back |-> FALSE, cap |-> 0, seen |-> << >>, stack |-> << >>,
            orig |-> << >>]
CoIdle == << >>
CthrIdle == << >>
DmIdle == << >>
FlIdle == << >>
RbIdle == << >>
HgIdle == InitHypergraph([u \in Nodes |-> 1])
PartIdle == InitPartition(HgIdle, [u \in Nodes |-> 0])

Quiescent == \A t \in Threads : thr[t].pc = "idle"

\* ======================================================================
\* SpecMove: threads move distinct nodes concurrently with changeNodePart
\* ======================================================================
InitMove ==
  /\ \E w \in WeightChoices : hg = InitHypergraph(w)
  /\ \E pid \in [Nodes -> Blocks] : part = InitPartition(hg, pid)
  /\ thr = ThrIdle
  /\ aux = AuxIdle
  /\ co = CoIdle /\ cthr = CthrIdle /\ dm = DmIdle
  /\ fl = FlIdle /\ rb = RbIdle

\* moveAllNodesOfHypergraphRandom: from = partID(hn), to # from
StartMove(t, u, to) ==
  /\ thr[t].pc = "idle"
  /\ \A t2 \in Threads : t2 < t => thr[t2].pc # "idle"  \* free workers are alike
  /\ aux.moves < MaxMoves
  /\ nodeIsEnabled(hg, u)
  /\ to # partID(part, u)
  /\ \A t2 \in Threads : thr[t2].pc # "idle" => thr[t2].node # u
  /\ thr' = [thr EXCEPT ![t] = [pc |-> "l622", node |-> u,
                                from |-> partID(part, u), to |-> to,
                                reg |-> 0, idx |-> 1]]
  /\ aux' = [aux EXCEPT !.moves = @ + 1]
  /\ UNCHANGED <<hg, part, co, cthr, dm, fl, rb>>

SetPartInfoStep(t) ==
  /\ thr[t].pc = "l622"
  /\ part' = setPartInfo(part, thr[t].node, thr[t].to)
  /\ thr' = [thr EXCEPT ![t].pc = "l623r"]
  /\ UNCHANGED <<hg, aux, co, cthr, dm, fl, rb>>

LoadPartInfo(t) ==
  /\ thr[t].pc \in {"l623r", "l624r", "l625r", "l626r"}
  /\ LET me == thr[t]
         v  == CASE me.pc = "l623r" -> partWeight(part, me.from)
                 [] me.pc = "l624r" -> partSize(part, me.from)
                 [] me.pc = "l625r" -> partWeight(part, me.to)
                 [] me.pc = "l626r" -> partSize(part, me.to)
         nx == CASE me.pc = "l623r" -> "l623w"
                 [] me.pc = "l624r" -> "l624w"
                 [] me.pc = "l625r" -> "l625w"
                 [] me.pc = "l626r" -> "l626w"
     IN thr' = [thr EXCEPT ![t].reg = v, ![t].pc = nx]
  /\ UNCHANGED <<hg, part, aux, co, cthr, dm, fl, rb>>

StorePartInfo(t) ==
  /\ thr[t].pc \in {"l623w", "l624w", "l625w", "l626w"}
  /\ LET me == thr[t]
         w  == nodeWeight(hg, me.node)
     IN /\ part' =
             CASE me.pc = "l623w" ->
                    storePartWeight(part, me.from, WeightAfterLeave(me.reg, w))
               [] me.pc = "l624w" ->
                    storePartSize(part, me.from, SizeAfterLeave(me.reg))
               [] me.pc = "l625w" ->
                    storePartWeight(part, me.to, WeightAfterJoin(me.reg, w))
               [] me.pc = "l626w" ->
                    storePartSize(part, me.to, SizeAfterJoin(me.reg))
        /\ thr' = [thr EXCEPT ![t].reg = 0,
                              ![t].pc = CASE me.pc = "l623w" -> "l624r"
                                          [] me.pc = "l624w" -> "l625r"
                                          [] me.pc = "l625w" -> "l626r"
                                          [] me.pc = "l626w" -> "dec"]
  /\ UNCHANGED <<hg, aux, co, cthr, dm, fl, rb>>

DecPinCount(t) ==
  /\ thr[t].pc = "dec"
  /\ LET me == thr[t]
     IN IF me.idx > Len(hg.incident[me.node])
        THEN /\ thr' = [thr EXCEPT ![t] = IdleThread]
             /\ part' = part
        ELSE /\ part' = decrementPinCountInPart(part, hg.incident[me.node][me.idx], me.from)
             /\ thr' = [thr EXCEPT ![t].pc = "inc"]
  /\ UNCHANGED <<hg, aux, co, cthr, dm, fl, rb>>

IncPinCount(t) ==
  /\ thr[t].pc = "inc"
  /\ LET me == thr[t]
     IN /\ part' = incrementPinCountInPart(part, hg.incident[me.node][me.idx], me.to)
        /\ thr' = [thr EXCEPT ![t].pc = "dec", ![t].idx = @ + 1]
  /\ UNCHANGED <<hg, aux, co, cthr, dm, fl, rb>>

NextMove ==
  \E t \in Threads :
    \/ \E u \in Nodes, to \in Blocks : StartMove(t, u, to)
    \/ SetPartInfoStep(t)
    \/ LoadPartInfo(t)
    \/ StorePartInfo(t)
    \/ DecPinCount(t)
    \/ IncPinCount(t)

SpecMove == InitMove /\ [][NextMove]_vars

\* ---- ground truth, recomputed as the smoke test does
RecountPins(e, b) == Cardinality(PinsInBlock(hg, part.id, e, b))
RecountWeight(b) == SumSet({ u \in EnabledNodes(hg) : part.id[u] = b }, hg.weight)
RecountSize(b) == Cardinality({ u \in EnabledNodes(hg) : part.id[u] = b })

\* C1: whenever no move is in progress, every maintained pin count p(e,i)
\* equals the number of enabled pins of e that lie in block i.
C1_PinCountsMatchRecount ==
  Quiescent =>
    \A e \in Edges, b \in Blocks : pinCountInPart(part, e, b) = RecountPins(e, b)

C1_Witness ==
  /\ Quiescent
  /\ aux.moves = MaxMoves
  /\ \E e \in Edges : Cardinality({ b \in Blocks : pinCountInPart(part, e, b) > 0 }) > 1

\* C2: whenever no move is in progress, the connectivity of every net equals
\* the number of blocks with a positive pin count, and its connectivity set
\* holds exactly those blocks.
C2_ConnectivityMatches ==
  Quiescent =>
    \A e \in Edges :
      /\ connectivitySet(part, e) = { b \in Blocks : RecountPins(e, b) > 0 }
      /\ connectivity(part, e) = Cardinality({ b \in Blocks : pinCountInPart(part, e, b) > 0 })

C2_Witness ==
  /\ Quiescent
  /\ aux.moves = MaxMoves
  /\ \E e \in Edges : connectivity(part, e) = 1
  /\ \E e \in Edges : connectivity(part, e) > 1

\* C3: whenever no move is in progress, the weight and the size of every
\* block equal the recomputed sum and number of its nodes.
C3_BlockWeightsAndSizes ==
  Quiescent =>
    \A b \in Blocks :
      /\ partWeight(part, b) = RecountWeight(b)
      /\ partSize(part, b) = RecountSize(b)

\* ======================================================================
\* SpecSeq: one thread applies whole moves, one after the other
\* ======================================================================
InitSeq ==
  /\ \E w \in WeightChoices : hg = InitHypergraph(w)
  /\ \E pid \in [Nodes -> Blocks] : part = InitPartition(hg, pid)
  /\ thr = ThrIdle
  /\ aux = AuxIdle
  /\ co = CoIdle /\ cthr = CthrIdle /\ dm = DmIdle
  /\ fl = FlIdle /\ rb = RbIdle

\* aux.prev is the overlay before the last move, aux.last that move; when the
\* move just made reverses the one before it, aux.back is set and aux.snap is
\* the overlay from before the pair.
SeqChangeNodePart(u, to) ==
  LET from == partID(part, u)
  IN /\ nodeIsEnabled(hg, u)
     /\ to # from
     /\ part' = changeNodePart(hg, part, u, from, to)
     /\ aux' = [aux EXCEPT !.prev = part,
                           !.last = <<u, from, to>>,
                           !.back = (aux.last = <<u, to, from>>),
                           !.snap = IF aux.last = <<u, to, from>>
                                    THEN aux.prev ELSE << >>]
     /\ UNCHANGED <<hg, thr, co, cthr, dm, fl, rb>>

NextSeq == \E u \in Nodes, to \in Blocks : SeqChangeNodePart(u, to)

SpecSeq == InitSeq /\ [][NextSeq]_vars

\* C4: changeNodePart(u, from, to) directly followed by changeNodePart(u, to,
\* from) restores the part id, the block weights and sizes, the pin counts and
\* the connectivity sets.
C4_ReverseMoveRestores == aux.back => part = aux.snap

C4_Witness ==
  /\ aux.back
  /\ aux.snap # << >>
  /\ \E e \in Edges : connectivity(aux.prev, e) # connectivity(part, e)
  /\ \E b \in Blocks : partWeight(aux.prev, b) # partWeight(part, b)

\* ======================================================================
\* SpecBal: threads move nodes with changeNodePartWithBalanceCheck
\* ======================================================================
\* the balance decision: the move fits iff c(V_to) + c(u) <= maxWeight
\* faulty variant: the weight of the arriving node is left out of the test
FitsInto_Unchecked(weight_to, w, max_weight) == weight_to <= max_weight
FitsInto(weight_to, w, max_weight) == weight_to + w <= max_weight

ReserveWeight(p, to, w) == [p EXCEPT !.weight[to] = @ + w]

\* what remains of an accepted move before the pin counts: the part id and the
\* other counters, each an atomic read-modify-write
CommitMove(p, u, from, to, w) ==
  [p EXCEPT !.id[u] = to,
            !.weight[from] = @ - w,
            !.size[from] = @ - 1,
            !.size[to] = @ + 1]

TotalNodeWeight(h) == SumSet(EnabledNodes(h), h.weight)

InitBal ==
  /\ \E w \in WeightChoices : hg = InitHypergraph(w)
  /\ \E pid \in [Nodes -> Blocks] : part = InitPartition(hg, pid)
  /\ thr = ThrIdle
  /\ \E c \in 1 .. TotalNodeWeight(hg) :
       /\ \A b \in Blocks : partWeight(part, b) <= c
       /\ aux = [AuxIdle EXCEPT !.cap = c,
                                !.seen = [t \in Threads |-> << >>]]
  /\ co = CoIdle /\ cthr = CthrIdle /\ dm = DmIdle
  /\ fl = FlIdle /\ rb = RbIdle

StartBalMove(t, u, to) ==
  /\ thr[t].pc = "idle"
  /\ \A t2 \in Threads : t2 < t => thr[t2].pc # "idle"
  /\ aux.moves < MaxMoves
  /\ nodeIsEnabled(hg, u)
  /\ to # partID(part, u)
  /\ \A t2 \in Threads : thr[t2].pc # "idle" => thr[t2].node # u
  /\ thr' = [thr EXCEPT ![t] = [pc |-> "check", node |-> u,
                                from |-> partID(part, u), to |-> to,
                                reg |-> 0, idx |-> 1]]
  /\ aux' = [aux EXCEPT !.moves = @ + 1]
  /\ UNCHANGED <<hg, part, co, cthr, dm, fl, rb>>

\* the linearization point: test and reservation are one atomic step;
\* aux.seen[t] records what the call saw and what it answered
BalanceCheck(t) ==
  /\ thr[t].pc = "check"
  /\ LET me == thr[t]
         w  == nodeWeight(hg, me.node)
         ok == FitsInto(partWeight(part, me.to), w, aux.cap)
     IN /\ aux' = [aux EXCEPT !.seen[t] =
                     [weight_to |-> partWeight(part, me.to), w |-> w, moved |-> ok]]
        /\ IF ok
           THEN /\ part' = ReserveWeight(part, me.to, w)
                /\ thr' = [thr EXCEPT ![t].pc = "commit"]
           ELSE /\ part' = part
                /\ thr' = [thr EXCEPT ![t] = IdleThread]
  /\ UNCHANGED <<hg, co, cthr, dm, fl, rb>>

CommitBalMove(t) ==
  /\ thr[t].pc = "commit"
  /\ LET me == thr[t]
     IN part' = CommitMove(part, me.node, me.from, me.to, nodeWeight(hg, me.node))
  /\ thr' = [thr EXCEPT ![t].pc = "dec"]
  /\ UNCHANGED <<hg, aux, co, cthr, dm, fl, rb>>

NextBal ==
  \E t \in Threads :
    \/ \E u \in Nodes, to \in Blocks : StartBalMove(t, u, to)
    \/ BalanceCheck(t)
    \/ CommitBalMove(t)
    \/ DecPinCount(t)
    \/ IncPinCount(t)

SpecBal == InitBal /\ [][NextBal]_vars

setNodeWeight(h, u, w) == [h EXCEPT !.weight[u] = w]
enableHypernode(h, u) == [h EXCEPT !.enabled[u] = TRUE]
disableHypernode(h, u) == [h EXCEPT !.enabled[u] = FALSE]

PinSlot(h, e, x) == CHOOSE i \in 1 .. h.size[e] : h.pins[e][i] = x

\* StreamingHypergraph::contract for one net e incident to v:
\*  1.) e holds u and v: v is swapped behind the valid pins and e shrinks;
\*  2.) e holds only v: the slot of v is reused for u, e becomes incident to u.
contractEdge(h, u, v, e) ==
  LET pos  == PinSlot(h, e, v)
      last == h.size[e]
  IN IF u \in pins(h, e)
     THEN [h EXCEPT !.pins[e] = [@ EXCEPT ![pos] = h.pins[e][last], ![last] = v],
                    !.size[e] = last - 1]
     ELSE [h EXCEPT !.pins[e][pos] = u,
                    !.incident[u] = Append(@, e)]

\* faulty variant: only the first incident net of v is contracted
contractLoop_FirstNet(h, u, v, i) ==
  IF i > Len(h.incident[v]) THEN h
  ELSE contractEdge(h, u, v, h.incident[v][i])

RECURSIVE contractLoop(_, _, _, _)
contractLoop(h, u, v, i) ==
  IF i > Len(h.incident[v]) THEN h
  ELSE contractLoop(contractEdge(h, u, v, h.incident[v][i]), u, v, i + 1)

\* the weight the representative carries after / before a contraction
WeightAfterContract(wu, wv) == wu + wv
\* faulty variant: the representative keeps the aggregated weight
WeightAfterUncontract_Keep(wu, wv) == wu
WeightAfterUncontract(wu, wv) == wu - wv

\* Hypergraph::contract
contract(h, u, v) ==
  LET h1 == setNodeWeight(h, u, WeightAfterContract(nodeWeight(h, u), nodeWeight(h, v)))
      h2 == contractLoop(h1, u, v, 1)
  IN disableHypernode(h2, v)

\* StreamingHypergraph::uncontract for the net at position pos of u's incident
\* nets; only nets marked as incident to v are touched.  Answers whether the
\* net was removed from the incident nets of u.
uncontractEdge(h, u, v, e, pos) ==
  IF e \notin Range(h.incident[v])
  THEN [h |-> h, removed |-> FALSE]
  ELSE IF h.size[e] < Len(h.pins[e]) /\ h.pins[e][h.size[e] + 1] = v
  THEN [h |-> [h EXCEPT !.size[e] = @ + 1], removed |-> FALSE]
  ELSE LET n == Len(h.incident[u])
       IN [h |-> [h EXCEPT !.pins[e][PinSlot(h, e, u)] = v,
                           !.incident[u] =
                              SubSeq([@ EXCEPT ![pos] = h.incident[u][n]], 1, n - 1)],
           removed |-> TRUE]

\* the loop of Hypergraph::uncontract over the incident nets of u
RECURSIVE uncontractLoop(_, _, _, _, _)
uncontractLoop(h, u, v, it, endpos) ==
  IF it > endpos THEN h
  ELSE LET r == uncontractEdge(h, u, v, h.incident[u][it], it)
       IN IF r.removed
          THEN uncontractLoop(r.h, u, v, it, endpos - 1)
          ELSE uncontractLoop(r.h, u, v, it + 1, endpos)

\* faulty variant: the size of the block is not incremented
reverseContractionPart_NoSize(p, u, v) == [p EXCEPT !.id[v] = partID(p, u)]
\* Hypergraph::reverseContraction: v comes back in the block of u
reverseContractionPart(p, u, v) ==
  LET part_id == partID(p, u)
  IN [p EXCEPT !.id[v] = part_id, !.size[part_id] = @ + 1]

\* Hypergraph::uncontract, the topology and the weights
uncontract(h, u, v) ==
  LET h1 == enableHypernode(h, v)
      h2 == uncontractLoop(h1, u, v, 1, Len(h1.incident[u]))
  IN setNodeWeight(h2, u, WeightAfterUncontract(nodeWeight(h2, u), nodeWeight(h2, v)))

\* Hypergraph::setPartInfo(u, id) of a node without a block
assignPart(h, p, u, id) ==
  [p EXCEPT !.id[u] = id,
            !.weight[id] = @ + nodeWeight(h, u),
            !.size[id] = @ + 1]

RECURSIVE assignAll(_, _, _, _)
assignAll(h, p, pid, S) ==
  IF S = {} THEN p
  ELSE LET u == CHOOSE x \in S : TRUE
       IN assignAll(h, assignPart(h, p, u, pid[u]), pid, S \ {u})

Unpartitioned ==
  [ id     |-> [u \in Nodes |-> kInvalidPartition],
    weight |-> [b \in Blocks |-> 0],
    size   |-> [b \in Blocks |-> 0],
    pincnt |-> [e \in Edges |-> [b \in Blocks |-> 0]],
    conn   |-> [e \in Edges |-> {}] ]

InitContract ==
  /\ \E w \in WeightChoices : hg = InitHypergraph(w)
  /\ part = Unpartitioned
  /\ thr = ThrIdle
  /\ aux = [AuxIdle EXCEPT !.orig = hg]
  /\ co = CoIdle /\ cthr = CthrIdle /\ dm = DmIdle
  /\ fl = FlIdle /\ rb = RbIdle

Contract(u, v) ==
  /\ u # v
  /\ nodeIsEnabled(hg, u)
  /\ nodeIsEnabled(hg, v)
  /\ aux.moves < MaxContractions
  /\ hg' = contract(hg, u, v)
  /\ aux' = [aux EXCEPT !.stack = <<[u |-> u, v |-> v]>> \o @,
                        !.moves = @ + 1]
  /\ UNCHANGED <<part, thr, co, cthr, dm, fl, rb>>

\* the initial partitioner gives every enabled node a block
SetPartition ==
  /\ \A u \in Nodes : partID(part, u) = kInvalidPartition
  /\ \E pid \in [Nodes -> Blocks] :
       part' = assignAll(hg, part, pid, EnabledNodes(hg))
  /\ UNCHANGED <<hg, thr, aux, co, cthr, dm, fl, rb>>

\* uncontract(memento) needs the representative to have a block
Uncontract ==
  /\ aux.stack # << >>
  /\ LET m == Head(aux.stack)
     IN /\ nodeIsEnabled(hg, m.u)
        /\ ~nodeIsEnabled(hg, m.v)
        /\ partID(part, m.u) # kInvalidPartition
        /\ hg' = uncontract(hg, m.u, m.v)
        /\ part' = reverseContractionPart(part, m.u, m.v)
  /\ aux' = [aux EXCEPT !.stack = Tail(@)]
  /\ UNCHANGED <<thr, co, cthr, dm, fl, rb>>

NextContract ==
  \/ \E u \in Nodes, v \in Nodes : Contract(u, v)
  \/ SetPartition
  \/ Uncontract

SpecContract == InitContract /\ [][NextContract]_vars

SameHypergraph(h, g) ==
  /\ h.enabled = g.enabled
  /\ h.weight = g.weight
  /\ \A e \in Edges : pins(h, e) = pins(g, e) /\ h.size[e] = g.size[e]
  /\ \A u \in Nodes : incidentEdges(h, u) = incidentEdges(g, u)
                      /\ Len(h.incident[u]) = Len(g.incident[u])

\* C5: once every contraction has been undone, last one first, the hypergraph
\* has the enabled nodes, the node weights, the pin sets and the incident-net
\* sets it started with.
C5_RoundTripRestores ==
  aux.stack = << >> => SameHypergraph(hg, aux.orig)

C5_Witness ==
  /\ aux.stack = << >>
  /\ aux.moves = MaxContractions
  /\ \E e \in Edges : hg.pins[e] # aux.orig.pins[e]

ValidPins(h, e) == SubSeq(h.pins[e], 1, h.size[e])

PinsEnabledAndDistinct(h) ==
  \A e \in Edges :
     /\ \A i \in 1 .. h.size[e] : nodeIsEnabled(h, h.pins[e][i])
     /\ \A i, j \in 1 .. h.size[e] : h.pins[e][i] = h.pins[e][j] => i = j

\* C18: every contract(u, v) leaves each pin list without disabled vertices and
\* without duplicates: a net of v that held u loses v, any other net of v has v
\* replaced by u and becomes incident to u.
C18_ContractKeepsPinLists ==
  [][ aux'.moves = aux.moves + 1 =>
        LET u == Head(aux'.stack).u
            v == Head(aux'.stack).v
        IN /\ PinsEnabledAndDistinct(hg')
           /\ ~nodeIsEnabled(hg', v)
           /\ \A e \in Edges :
                IF v \notin pins(hg, e) THEN ValidPins(hg', e) = ValidPins(hg, e)
                ELSE IF u \in pins(hg, e) THEN pins(hg', e) = pins(hg, e) \ {v}
                ELSE /\ pins(hg', e) = (pins(hg, e) \ {v}) \cup {u}
                     /\ e \in incidentEdges(hg', u)
    ]_vars

\* two contractions in a row: one net has shrunk, another holds a
\* representative that was not among its pins at the start
C18_Witness ==
  /\ Len(aux.stack) >= 2 /\ aux.moves = Len(aux.stack)
  /\ \E e \in Edges : hg.size[e] < aux.orig.size[e]
  /\ \E e \in Edges : \E u \in pins(hg, e) : u \notin pins(aux.orig, e)

\* weight and size of every block are those of its enabled vertices
BlockCountersExact(h, p) ==
  \A b \in Blocks :
     /\ partWeight(p, b) = SumSet({ u \in EnabledNodes(h) : partID(p, u) = b }, h.weight)
     /\ partSize(p, b) = Cardinality({ u \in EnabledNodes(h) : partID(p, u) = b })

\* C19: uncontract of the memento (u, v) on a partitioned hypergraph re-enables
\* v, puts v into the block of u, takes the weight of v off u, increments the
\* size of that block and leaves every block weight alone, so that exact block
\* weights and sizes stay exact.
C19_UncontractKeepsBlocks ==
  [][ Len(aux'.stack) < Len(aux.stack) =>
        LET u == Head(aux.stack).u
            v == Head(aux.stack).v
            b == partID(part, u)
        IN /\ nodeIsEnabled(hg', v)
           /\ partID(part', v) = b /\ partID(part', u) = b
           /\ nodeWeight(hg', u) = nodeWeight(hg, u) - nodeWeight(hg', v)
           /\ partSize(part', b) = partSize(part, b) + 1
           /\ \A c \in Blocks : partWeight(part', c) = partWeight(part, c)
           /\ \A c \in Blocks \ {b} : partSize(part', c) = partSize(part, c)
           /\ BlockCountersExact(hg, part) => BlockCountersExact(hg', part')
    ]_vars

\* a contraction has been undone in a partition that uses both blocks, and the
\* block weights and sizes are exact
C19_Witness ==
  /\ aux.moves > Len(aux.stack)
  /\ \A b \in Blocks : partSize(part, b) > 0
  /\ BlockCountersExact(hg, part)

\* ======================================================================
\* SpecMatch: one clustering pass of the multilevel coarsener
\* ======================================================================
CoThreads == 1 .. NumCoarseningThreads
\* numeric_limits<HypernodeID>::max(): an id no node has
kInvalidHypernode == 2 ^ 30 + (2 ^ 30 - 1)

hierarchyContractionLimit(n, maximum_shrink_factor, contraction_limit) ==
  Max(n \div maximum_shrink_factor, contraction_limit)

MatchIdle ==
  [pc |-> "idle", u |-> 0, v |-> 0, weight_v |-> 0, cluster_v |-> 0,
   cur_u |-> 0, smallest |-> 0]

\* coarseningPassImpl up to the parallel loop: every node is its own cluster
InitMatch ==
  /\ \E w \in WeightChoices : hg = InitHypergraph(w)
  /\ part = PartIdle /\ thr = ThrIdle /\ aux = AuxIdle /\ dm = DmIdle
  /\ fl = FlIdle /\ rb = RbIdle
  /\ \E maxw \in 2 .. MaxAllowedNodeWeight, sf \in 2 .. MaxShrinkFactor, cl \in 1 .. 2 :
       co = [ state      |-> [n \in Nodes |-> "UNMATCHED"],
              partner    |-> [n \in Nodes |-> n],
              cid        |-> [n \in Nodes |-> n],
              cw         |-> [n \in Nodes |-> nodeWeight(hg, n)],
              todo       |-> Nodes,
              before     |-> NumNodes,
              cur        |-> NumNodes,
              limit      |-> hierarchyContractionLimit(NumNodes, sf, cl),
              maxw       |-> maxw,
              contracted |-> [t \in CoThreads |-> 0],
              thresh     |-> [t \in CoThreads |-> 0] ]
  /\ cthr = [t \in CoThreads |-> MatchIdle]

At(t, pcs) == cthr[t].pc \in pcs
Goto(t, pc) == cthr' = [cthr EXCEPT ![t].pc = pc]
Return(t) == cthr' = [cthr EXCEPT ![t] = MatchIdle]
WeightFits(weight_u, weight_v, maxw) == weight_u + weight_v <= maxw
Shared == <<hg, part, thr, aux, dm, fl, rb>>

\* the body of the parallel loop up to the call of matchVertices: the rater
\* names a target or none
PickVertex(t) ==
  /\ At(t, {"idle"})
  \* idle threads with equal thread-local counters are interchangeable:
  \* the first of them takes the next vertex
  /\ \A s \in CoThreads :
       (s < t /\ At(s, {"idle"})) =>
          <<co.contracted[s], co.thresh[s]>> # <<co.contracted[t], co.thresh[t]>>
  /\ \E hn \in co.todo :
       /\ co' = [co EXCEPT !.todo = @ \ {hn}]
       /\ IF nodeIsEnabled(hg, hn) /\ co.state[hn] = "UNMATCHED" /\ co.cur > co.limit
          THEN \E target \in (Nodes \ {hn}) \cup {kInvalidHypernode} :
                 IF target # kInvalidHypernode
                 THEN cthr' = [cthr EXCEPT ![t] = [MatchIdle EXCEPT !.pc = "l310", !.u = hn, !.v = target]]
                 ELSE UNCHANGED cthr
          ELSE UNCHANGED cthr
  /\ UNCHANGED Shared

\* weight_v = _cluster_weight[...] and the test against max_allowed_node_weight
CheckWeight(t) ==
  /\ At(t, {"l310", "l333", "l385"})
  /\ LET c  == cthr[t]
         x  == IF c.pc = "l310" THEN c.v ELSE c.cluster_v
         wv == co.cw[x]
         ok == WeightFits(nodeWeight(hg, c.u), wv, co.maxw)
         nx == IF c.pc = "l310" THEN (IF ok THEN "l313" ELSE "l208")
               ELSE IF c.pc = "l333" THEN (IF ok THEN "l336" ELSE "l396")
               ELSE (IF ok THEN "l387" ELSE "l396")
     IN cthr' = [cthr EXCEPT ![t].weight_v = wv, ![t].pc = nx]
  /\ UNCHANGED <<co, hg, part, thr, aux, dm, fl, rb>>

\* faulty variant: an exchange that never compares
compare_exchange_strong_Blind(value, expected) == TRUE
\* std::atomic::compare_exchange_strong succeeds iff the value is the expected one
compare_exchange_strong(value, expected) == value = expected

\* _matching_state[u].compare_exchange_strong(unmatched, match_in_progress)
AcquireU(t) ==
  /\ At(t, {"l313"})
  /\ IF compare_exchange_strong(co.state[cthr[t].u], "UNMATCHED")
     THEN co' = [co EXCEPT !.state[cthr[t].u] = "MATCHING_IN_PROGRESS"] /\ Goto(t, "l314")
     ELSE UNCHANGED co /\ Goto(t, "l208")
  /\ UNCHANGED Shared

SetPartner(t) ==
  /\ At(t, {"l314"})
  /\ co' = [co EXCEPT !.partner[cthr[t].u] = cthr[t].v]
  /\ Goto(t, "l318")
  /\ UNCHANGED Shared

LoadStateV(t) ==
  /\ At(t, {"l318"})
  /\ Goto(t, IF co.state[cthr[t].v] = "MATCHED" THEN "l322" ELSE "l342")
  /\ UNCHANGED <<co, hg, part, thr, aux, dm, fl, rb>>

\* v is matched: is it the representative of its cluster?
ReadClusterOfMatched(t) ==
  /\ At(t, {"l322"})
  /\ LET c == cthr[t]
     IN IF c.v = co.cid[c.v]
        THEN Goto(t, "l325")
        ELSE cthr' = [cthr EXCEPT ![t].cluster_v = co.cid[c.v], ![t].pc = "l333"]
  /\ UNCHANGED <<co, hg, part, thr, aux, dm, fl, rb>>

\* cluster_ids[u] = v  or  cluster_ids[u] = cluster_v
SetClusterId(t) ==
  /\ At(t, {"l325", "l336", "l345", "l370", "l387"})
  /\ LET c == cthr[t]
         x == IF c.pc \in {"l336", "l387"} THEN c.cluster_v ELSE c.v
         nx == CASE c.pc = "l325" -> "l326" [] c.pc = "l336" -> "l337"
                 [] c.pc = "l345" -> "l346" [] c.pc = "l370" -> "l371"
                 [] c.pc = "l387" -> "l388"
     IN /\ co' = [co EXCEPT !.cid[c.u] = x]
        /\ Goto(t, nx)
  /\ UNCHANGED Shared

\* _cluster_weight[...] += weight_u (atomic) and ++contracted_nodes (thread-local)
AddClusterWeight(t) ==
  /\ At(t, {"l326", "l337", "l346", "l371", "l388"})
  /\ LET c == cthr[t]
         x == IF c.pc \in {"l337", "l388"} THEN c.cluster_v ELSE c.v
         nx == CASE c.pc = "l326" -> "l396" [] c.pc = "l337" -> "l396"
                 [] c.pc = "l346" -> "l348" [] c.pc = "l371" -> "l373"
                 [] c.pc = "l388" -> "l396"
     IN /\ co' = [co EXCEPT !.cw[x] = @ + nodeWeight(hg, c.u),
                            !.contracted[t] = @ + 1]
        /\ Goto(t, nx)
  /\ UNCHANGED Shared

\* _matching_state[v].compare_exchange_strong(unmatched, match_in_progress)
AcquireV(t) ==
  /\ At(t, {"l342"})
  /\ IF compare_exchange_strong(co.state[cthr[t].v], "UNMATCHED")
     THEN co' = [co EXCEPT !.state[cthr[t].v] = "MATCHING_IN_PROGRESS"] /\ Goto(t, "l345")
     ELSE UNCHANGED co /\ Goto(t, "l356")
  /\ UNCHANGED Shared

\* _matching_state[v] = MATCHED, by the owner of u and v or by the resolver of a cycle
MarkPartnerMatched(t) ==
  /\ At(t, {"l348", "l373"})
  /\ co' = [co EXCEPT !.state[cthr[t].v] = "MATCHED"]
  /\ Goto(t, IF cthr[t].pc = "l348" THEN "l396" ELSE "l374")
  /\ UNCHANGED Shared

\* while ( _matching_state[v] == MATCHING_IN_PROGRESS )
ConflictLoop(t) ==
  /\ At(t, {"l356"})
  /\ IF co.state[cthr[t].v] = "MATCHING_IN_PROGRESS"
     THEN cthr' = [cthr EXCEPT ![t].cur_u = cthr[t].u, ![t].smallest = cthr[t].u,
                               ![t].pc = "l361"]
     ELSE Goto(t, "l382")
  /\ UNCHANGED <<co, hg, part, thr, aux, dm, fl, rb>>

\* one turn of the walk along the matching partners
WalkCycle(t) ==
  /\ At(t, {"l361"})
  /\ LET c == cthr[t]
         p == co.partner[c.cur_u]
     IN IF p # c.u /\ p # c.cur_u
        THEN cthr' = [cthr EXCEPT ![t].cur_u = p, ![t].smallest = Min(c.smallest, p)]
        ELSE Goto(t, "l368")
  /\ UNCHANGED <<co, hg, part, thr, aux, dm, fl, rb>>

\* faulty variant: nobody resolves a cycle
ResolvesCycle_Never(is_in_cyclic_dependency, u, smallest_node_id_in_cycle) == FALSE
\* line 369
ResolvesCycle(is_in_cyclic_dependency, u, smallest_node_id_in_cycle) ==
  is_in_cyclic_dependency /\ u = smallest_node_id_in_cycle

\* the node with the smallest id of a cycle resolves it
CheckCycle(t) ==
  /\ At(t, {"l368"})
  /\ LET c == cthr[t]
         is_in_cyclic_dependency == co.partner[c.cur_u] = c.u
     IN Goto(t, IF ResolvesCycle(is_in_cyclic_dependency, c.u, c.smallest)
                THEN "l370" ELSE "l356")
  /\ UNCHANGED <<co, hg, part, thr, aux, dm, fl, rb>>

\* _matching_state[u] = MATCHED inside the conflict loop
ResolveMarkU(t) ==
  /\ At(t, {"l374"})
  /\ co' = [co EXCEPT !.state[cthr[t].u] = "MATCHED"]
  /\ Goto(t, "l356")
  /\ UNCHANGED Shared

\* after the conflict loop: is u still in progress?
AfterConflict(t) ==
  /\ At(t, {"l382"})
  /\ Goto(t, IF co.state[cthr[t].u] = "MATCHING_IN_PROGRESS" THEN "l384" ELSE "l396")
  /\ UNCHANGED <<co, hg, part, thr, aux, dm, fl, rb>>

ReadClusterAfterWait(t) ==
  /\ At(t, {"l384"})
  /\ cthr' = [cthr EXCEPT ![t].cluster_v = co.cid[cthr[t].v], ![t].pc = "l385"]
  /\ UNCHANGED <<co, hg, part, thr, aux, dm, fl, rb>>

ResetPartner(t) ==
  /\ At(t, {"l396"})
  /\ co' = [co EXCEPT !.partner[cthr[t].u] = cthr[t].u]
  /\ Goto(t, "l397")
  /\ UNCHANGED Shared

MarkMatched(t) ==
  /\ At(t, {"l397"})
  /\ co' = [co EXCEPT !.state[cthr[t].u] = "MATCHED"]
  /\ Goto(t, "l208")
  /\ UNCHANGED Shared

SumContracted(c) == SumSet(CoThreads, c.contracted)

\* back in the loop body: refresh the shared number of nodes now and then
UpdateNumNodes(t) ==
  /\ At(t, {"l208"})
  /\ IF co.contracted[t] >= co.thresh[t]
     THEN LET n    == co.before - SumContracted(co)
              dist == IF n > co.limit THEN n - co.limit ELSE 0
          IN co' = [co EXCEPT !.cur = n,
                              !.thresh[t] = @ + (dist \div NumCoarseningThreads)]
     ELSE UNCHANGED co
  /\ Return(t)
  /\ UNCHANGED Shared

NextMatch ==
  \E t \in CoThreads :
    \/ PickVertex(t)
    \/ CheckWeight(t)
    \/ AcquireU(t)
    \/ SetPartner(t)
    \/ LoadStateV(t)
    \/ ReadClusterOfMatched(t)
    \/ SetClusterId(t)
    \/ AddClusterWeight(t)
    \/ AcquireV(t)
    \/ MarkPartnerMatched(t)
    \/ ConflictLoop(t)
    \/ WalkCycle(t)
    \/ CheckCycle(t)
    \/ ResolveMarkU(t)
    \/ AfterConflict(t)
    \/ ReadClusterAfterWait(t)
    \/ ResetPartner(t)
    \/ MarkMatched(t)
    \/ UpdateNumNodes(t)

SpecMatch == InitMatch /\ [][NextMatch]_vars

\* every step a thread of the parallel loop can take
ThreadStep(t) ==
  \/ PickVertex(t)
  \/ CheckWeight(t)
  \/ AcquireU(t)
  \/ SetPartner(t)
  \/ LoadStateV(t)
  \/ ReadClusterOfMatched(t)
  \/ SetClusterId(t)
  \/ AddClusterWeight(t)
  \/ AcquireV(t)
  \/ MarkPartnerMatched(t)
  \/ ConflictLoop(t)
  \/ WalkCycle(t)
  \/ CheckCycle(t)
  \/ ResolveMarkU(t)
  \/ AfterConflict(t)
  \/ ReadClusterAfterWait(t)
  \/ ResetPartner(t)
  \/ MarkMatched(t)
  \/ UpdateNumNodes(t)

\* a pass over nodes of unit weight down to the smallest contraction limit,
\* with room for two nodes in a cluster
InitMatchFair == InitMatch /\ hg = HgIdle /\ co.limit = 1 /\ co.maxw = 2

\* the pass with every thread of the parallel loop scheduled fairly
SpecMatchFair ==
  InitMatchFair /\ [][NextMatch]_vars /\ \A t \in CoThreads : WF_vars(ThreadStep(t))

\* the parallel loop has ended
PassDone == co.todo = {} /\ \A t \in CoThreads : cthr[t].pc = "idle"

ClusterMembers(r) == { u \in Nodes : co.cid[u] = r }
ExpectedClusterWeight(r) == SumSet(ClusterMembers(r), [u \in Nodes |-> nodeWeight(hg, u)])

\* C20: under fair scheduling of the threads every matchVertices call returns,
\* whatever the pattern of simultaneous requests (chains, mutual pairs, longer
\* cycles): the pass comes to its end, with every thread out of matchVertices
\* for good, and then no vertex is left in state MATCHING_IN_PROGRESS.
C20_MatchingTerminates ==
  <>[](PassDone /\ \A n \in Nodes : co.state[n] # "MATCHING_IN_PROGRESS")

\* three threads wait in the conflict loop on a cycle of three requests
C20_Witness ==
  /\ \A t \in CoThreads : cthr[t].pc \in {"l356", "l361", "l368"}
  /\ \A n \in Nodes : co.state[n] = "MATCHING_IN_PROGRESS"
  /\ \A n \in Nodes : co.partner[co.partner[co.partner[n]]] = n /\ co.partner[n] # n
                      /\ co.partner[co.partner[n]] # n

\* C7: after the clustering pass every node points at a representative that
\* points at itself: cluster_ids[cluster_ids[u]] = cluster_ids[u].
C7_ClusterIdsValid ==
  PassDone => \A u \in Nodes : co.cid[co.cid[u]] = co.cid[u]

\* C8: after the clustering pass the aggregated weight of every representative
\* is the sum of the node weights of the nodes of its cluster.
C8_ClusterWeightsExact ==
  PassDone => \A r \in Nodes : co.cid[r] = r => co.cw[r] = ExpectedClusterWeight(r)

\* C21: at the end of a clustering pass the nodes clustered into one
\* representative weigh at most max_allowed_node_weight together, whatever
\* the interleaving of the threads that join the cluster.
C21_WeightCapRespected ==
  PassDone => \A r \in Nodes : ExpectedClusterWeight(r) <= co.maxw

\* C22: once a vertex is in state MATCHED its cluster id stays as it is for
\* the rest of the pass, so the representative read after seeing MATCHED
\* remains the representative of that vertex.
C22_MatchedClusterIdFixed ==
  [][\A v \in Nodes : co.state[v] = "MATCHED" => co'.cid[v] = co.cid[v]]_vars

\* the threads that have won a CAS on x and have not yet left matchVertices
\* (line 313, for its own vertex) or finished with x (line 342, for the partner)
OwnedAsU ==
  {"l314", "l318", "l322", "l325", "l326", "l333", "l336", "l337", "l342",
   "l345", "l346", "l348", "l356", "l361", "l368", "l370", "l371", "l373",
   "l374", "l382", "l384", "l385", "l387", "l388", "l396", "l397"}
OwnedAsV == {"l345", "l346", "l348"}
Owners(x) ==
  { t \in CoThreads : \/ cthr[t].u = x /\ cthr[t].pc \in OwnedAsU
                      \/ cthr[t].v = x /\ cthr[t].pc \in OwnedAsV }

\* C37: at the end of a pass the contracted_nodes counters of the threads add
\* up to the number of nodes u with cluster_ids[u] != u, so that
\* current_num_nodes is the number of clusters
C37_ContractedNodesCounted ==
  PassDone =>
    /\ SumContracted(co) = Cardinality({ u \in Nodes : co.cid[u] # u })
    /\ NumNodes - SumContracted(co) = Cardinality({ co.cid[u] : u \in Nodes })

\* C23: ownership of a vertex is exclusive and its state only moves forward:
\* at no time have two threads won the CAS on the same vertex, a cluster id
\* is only changed by the thread that won the CAS of line 313 on that vertex,
\* and every change of a state is UNMATCHED -> MATCHING_IN_PROGRESS or
\* MATCHING_IN_PROGRESS -> MATCHED (so no vertex is won twice in a pass).
C23_OwnershipLinearizable ==
  /\ [](\A x \in Nodes : Cardinality(Owners(x)) <= 1)
  /\ [][\A x \in Nodes :
         /\ co'.state[x] # co.state[x] =>
               <<co.state[x], co'.state[x]>> \in
                  { <<"UNMATCHED", "MATCHING_IN_PROGRESS">>,
                    <<"MATCHING_IN_PROGRESS", "MATCHED">> }
         /\ co'.cid[x] # co.cid[x] =>
               \E t \in Owners(x) : cthr'[t] # cthr[t] /\ cthr[t].u = x]_vars

\* a thread has lost the CAS of line 313 on x against the thread that took x
\* as its partner at line 342 and has already written its own cluster id
C23_Witness ==
  \E a, b \in CoThreads, x \in Nodes :
    /\ a # b
    /\ cthr[a].pc = "l208" /\ cthr[a].u = x
    /\ WeightFits(nodeWeight(hg, x), cthr[a].weight_v, co.maxw)
    /\ cthr[b].pc = "l346" /\ cthr[b].v = x
    /\ co.state[x] = "MATCHING_IN_PROGRESS"
    /\ co.cid[cthr[b].u] = x

\* ======================================================================
\* SpecCoarsen: the sequence of coarsening passes and its termination
\* ======================================================================
MaxCoarsenNodes == 8
MaxContractionLimit == 3

\* minimum_shrink_factor as a fraction <<numerator, denominator>>; the values
\* are doubles that the quotient of two node counts up to MaxCoarsenNodes
\* either hits exactly or misses by far more than a rounding error
ShrinkFactors == { <<1, 1>>, <<3, 2>>, <<2, 1>> }

InitCoarsen ==
  /\ hg = HgIdle /\ part = PartIdle /\ thr = ThrIdle /\ aux = AuxIdle
  /\ cthr = CthrIdle /\ dm = DmIdle /\ fl = FlIdle /\ rb = RbIdle
  /\ \E n \in 2 .. MaxCoarsenNodes, cl \in 1 .. MaxContractionLimit, f \in ShrinkFactors :
       co = [ num_nodes |-> n, contraction_limit |-> cl, minimum_shrink_factor |-> f,
              pass_nr |-> 0, before |-> 0, after |-> 0, returned |-> "none",
              terminated |-> FALSE ]

shouldNotTerminateImpl(c) == c.num_nodes > c.contraction_limit

\* faulty variant: a pass that reaches the factor exactly does not give up
ReductionTooSmall_Strict(num_hns_before_pass, current_num_nodes, minimum_shrink_factor) ==
  num_hns_before_pass * minimum_shrink_factor[2] < minimum_shrink_factor[1] * current_num_nodes

\* reduction_vertices_percentage <= minimum_shrink_factor
ReductionTooSmall(num_hns_before_pass, current_num_nodes, minimum_shrink_factor) ==
  num_hns_before_pass * minimum_shrink_factor[2] <= minimum_shrink_factor[1] * current_num_nodes

\* one pass: the clustering leaves current_num_nodes clusters; the pass gives
\* up or contracts them
coarseningPassImpl ==
  /\ ~co.terminated
  /\ shouldNotTerminateImpl(co) /\ co.returned # "false"
  /\ \E current_num_nodes \in 1 .. co.num_nodes :
       IF ReductionTooSmall(co.num_nodes, current_num_nodes, co.minimum_shrink_factor)
       THEN co' = [co EXCEPT !.before = co.num_nodes, !.after = current_num_nodes,
                             !.returned = "false"]
       ELSE co' = [co EXCEPT !.before = co.num_nodes, !.after = current_num_nodes,
                             !.num_nodes = current_num_nodes,
                             !.pass_nr = @ + 1,
                             !.returned = "true"]
  /\ UNCHANGED <<hg, part, thr, aux, cthr, dm, fl, rb>>

\* the loop of passes has ended
terminateImpl ==
  /\ ~co.terminated
  /\ ~(shouldNotTerminateImpl(co) /\ co.returned # "false")
  /\ co' = [co EXCEPT !.terminated = TRUE]
  /\ UNCHANGED <<hg, part, thr, aux, cthr, dm, fl, rb>>

NextCoarsen ==
  \/ coarseningPassImpl
  \/ terminateImpl

SpecCoarsen == InitCoarsen /\ [][NextCoarsen]_vars

\* C24: a pass gives up without contracting exactly if
\* nodes_before / nodes_after < minimum_shrink_factor, and otherwise (also
\* when the quotient equals the factor) contracts and returns true; passes
\* are only made above the contraction limit, and the loop ends as soon as
\* the number of nodes is at most the contraction limit.
C24_ShrinkFactorTermination ==
  /\ co.returned # "none" =>
        /\ co.before > co.contraction_limit
        /\ IF co.before * co.minimum_shrink_factor[2] < co.minimum_shrink_factor[1] * co.after
           THEN co.returned = "false" /\ co.num_nodes = co.before
           ELSE co.returned = "true" /\ co.num_nodes = co.after
  /\ co.terminated => (co.num_nodes <= co.contraction_limit \/ co.returned = "false")

\* ======================================================================
\* SpecDeep: the deep multilevel driver and its recursive bipartitioning tree
\* ======================================================================
\* ---- RBTree: _desired_blocks, one sequence of block counts per level
RECURSIVE SplitFrom_Halved(_, _)
SplitFrom_Halved(level, i) ==
  IF i > Len(level) THEN << >>
  ELSE (IF level[i] > 1 THEN <<level[i] \div 2, level[i] \div 2>> ELSE <<1>>)
       \o SplitFrom_Halved(level, i + 1)

RECURSIVE SplitFrom(_, _)
SplitFrom(level, i) ==
  IF i > Len(level) THEN << >>
  ELSE (IF level[i] > 1
        THEN <<(level[i] \div 2) + (level[i] % 2), level[i] \div 2>>
        ELSE <<1>>) \o SplitFrom(level, i + 1)

SplitGoesOn(level) ==
  \E i \in 1 .. Len(level) :
     level[i] > 1 /\ ((level[i] \div 2) + (level[i] % 2) > 1 \/ level[i] \div 2 > 1)

RECURSIVE precomputeRBTree(_)
precomputeRBTree(desired) ==
  LET cur  == desired[Len(desired)]
      next == Append(desired, SplitFrom(cur, 1))
  IN IF SplitGoesOn(cur) THEN precomputeRBTree(next) ELSE next

RBTree(k) == precomputeRBTree(<< <<k>> >>)

HasLevel(tree, k) == \E i \in 1 .. Len(tree) : Len(tree[i]) = k

\* _partition_to_level: the last level with k blocks (levels counted from 1 here)
PartitionToLevel(tree, k) ==
  CHOOSE i \in 1 .. Len(tree) :
     Len(tree[i]) = k /\ \A j \in (i + 1) .. Len(tree) : Len(tree[j]) # k

OriginalK(tree) == tree[1][1]

\* _partition_to_level.at(k) finds no entry
nextKThrows(tree, k) ==
  k < OriginalK(tree) /\ k # kInvalidPartition /\ ~HasLevel(tree, k)

\* faulty variant: the number of blocks doubles from level to level
nextK_Doubling(tree, k) ==
  IF k < OriginalK(tree) /\ k # kInvalidPartition THEN 2 * k ELSE kInvalidPartition

nextK(tree, k) ==
  IF k < OriginalK(tree) /\ k # kInvalidPartition
  THEN LET level == PartitionToLevel(tree, k)
       IN IF level + 1 <= Len(tree) THEN Len(tree[level + 1]) ELSE OriginalK(tree)
  ELSE kInvalidPartition

desiredNumberOfBlocks(tree, current_k, block) ==
  tree[PartitionToLevel(tree, current_k)][block + 1]

RECURSIVE MaxBlocksFrom(_, _, _, _)
MaxBlocksFrom(tree, n, mult, i) ==
  IF i < 1 THEN Len(tree[Len(tree)])
  ELSE IF n >= Len(tree[i]) * mult THEN Len(tree[i])
  ELSE MaxBlocksFrom(tree, n, mult, i - 1)

get_maximum_number_of_blocks(tree, n, mult) == MaxBlocksFrom(tree, n, mult, Len(tree))

\* ---- the partition of the current level: one block id per node (unit weights)
RECURSIVE LeadingBlocks(_, _, _)
LeadingBlocks(ids, k, i) ==
  IF i < k /\ (\E j \in 1 .. Len(ids) : ids[j] = i)
  THEN LeadingBlocks(ids, k, i + 1)
  ELSE i

\* the number of leading blocks with non-zero weight
get_current_k(ids, k) == LeadingBlocks(ids, k, 0)

\* faulty variant: one new id per block, whether it is split or not
BlockRange_Single(tree, current_k, block) == block

RECURSIVE BlockRange(_, _, _)
BlockRange(tree, current_k, block) ==
  IF block = 0 THEN 0
  ELSE BlockRange(tree, current_k, block - 1)
       + (IF desiredNumberOfBlocks(tree, current_k, block - 1) > 1 THEN 2 ELSE 1)

\* an id read through an index outside bipartitions / block_ranges
GarbageIds == 0 .. MaxK

\* bipartition_each_block: side[i] is the side the bipartition of its block
\* gives node i, garbage what a node with a block id >= current_k ends up with
bipartition_each_block(tree, ids, current_k, side, garbage) ==
  [i \in 1 .. Len(ids) |->
     LET from == ids[i]
     IN IF from \in 0 .. (current_k - 1)
        THEN IF desiredNumberOfBlocks(tree, current_k, from) > 1
             THEN (IF side[i] = 0 THEN BlockRange(tree, current_k, from)
                   ELSE BlockRange(tree, current_k, from) + 1)
             ELSE BlockRange(tree, current_k, from)
        ELSE garbage]

\* ---- coarsening
RECURSIVE adapt_max_allowed_node_weight(_, _, _, _)
adapt_max_allowed_node_weight(actual_k, n, should_continue, contraction_limit) ==
  IF (n <= actual_k * contraction_limit \/ ~should_continue) /\ actual_k > 2
  THEN adapt_max_allowed_node_weight(Max(actual_k \div 2, 2), n, TRUE, contraction_limit)
  ELSE [actual_k |-> actual_k, should_continue |-> should_continue]

ContractionLimitForBipartitioning == 2 * dm.mult

\* deep_multilevel_partitioning up to the coarsening loop
NewFrame(type, k, num_threads, n, mult) ==
  LET a == adapt_max_allowed_node_weight(Max(Min(k, n \div mult), 2), n, TRUE, 2 * mult)
  IN [ pc |-> "coarsen", type |-> type, num_threads |-> num_threads, final_k |-> k,
       n |-> n, levels |-> << >>, ids |-> << >>,
       actual_k |-> a.actual_k, should_continue |-> a.should_continue,
       no_further_contractions_possible |-> TRUE,
       current_k |-> kInvalidPartition, next_k |-> kInvalidPartition ]

Top == dm.frames[1]
SetTop(f) == dm' = [dm EXCEPT !.frames[1] = f]
DeepRest == <<hg, part, thr, aux, co, cthr, fl, rb>>
Running == dm.out = "running"

InitDeep ==
  /\ hg = HgIdle /\ part = PartIdle /\ thr = ThrIdle /\ aux = AuxIdle
  /\ co = CoIdle /\ cthr = CthrIdle
  /\ fl = FlIdle /\ rb = RbIdle
  /\ \E k \in 2 .. MaxK, n \in 2 .. MaxDeepNodes, t \in 1 .. NumDeepThreads,
        mult \in 1 .. MaxContractionLimitMultiplier, rec \in BOOLEAN :
       dm = [ k |-> k, mult |-> mult, tree |-> RBTree(k),
              perform_parallel_recursion |-> rec,
              out |-> "running", rebalanced_at |-> kInvalidPartition,
              frames |-> <<NewFrame("main", k, t, n, mult)>> ]

MustRecurse(f) ==
  dm.perform_parallel_recursion /\ f.n < f.num_threads * ContractionLimitForBipartitioning

CoarseningGoesOn(f) == f.n > ContractionLimitForBipartitioning /\ f.should_continue

\* one turn of the coarsening loop: the pass contracts the hypergraph or not
CoarseningPass ==
  /\ Running /\ Top.pc = "coarsen"
  /\ CoarseningGoesOn(Top) /\ ~MustRecurse(Top)
  /\ \E m \in 1 .. Top.n :
       LET a == adapt_max_allowed_node_weight(Top.actual_k, m, m < Top.n,
                                              ContractionLimitForBipartitioning)
       IN SetTop([Top EXCEPT !.n = m,
                             !.levels = IF m < Top.n THEN <<Top.n>> \o @ ELSE @,
                             !.actual_k = a.actual_k,
                             !.should_continue = a.should_continue])
  /\ UNCHANGED DeepRest

\* the coarsening loop ends
StopCoarsening ==
  /\ Running /\ Top.pc = "coarsen"
  /\ ~CoarseningGoesOn(Top) \/ MustRecurse(Top)
  /\ SetTop([Top EXCEPT !.pc = "initial_partitioning",
                        !.no_further_contractions_possible = ~CoarseningGoesOn(Top)])
  /\ UNCHANGED DeepRest

\* pool::bipartition of the coarsest hypergraph
InitialBipartition ==
  /\ Running /\ Top.pc = "initial_partitioning"
  /\ Top.no_further_contractions_possible
  /\ \E ids \in [1 .. Top.n -> {0, 1}] :
       SetTop([Top EXCEPT !.ids = ids, !.pc = "adapt"])
  /\ UNCHANGED DeepRest

\* faulty variant: every call gets the full share
ThreadsOfCall_Full(num_threads_per_recursion, num_threads, i) == num_threads_per_recursion
\* std::min(num_threads_per_recursion, num_threads - i * num_threads_per_recursion)
\* in size_t: a difference below zero wraps around to a huge number
ThreadsOfCall(num_threads_per_recursion, num_threads, i) ==
  IF num_threads - i * num_threads_per_recursion < 0
  THEN num_threads_per_recursion
  ELSE Min(num_threads_per_recursion, num_threads - i * num_threads_per_recursion)

\* the number of threads of each of the parallel recursive calls
RecursionThreads(current_num_nodes, num_threads, contraction_limit_for_bipartitioning) ==
  LET c   == contraction_limit_for_bipartitioning
      tp0 == Max(current_num_nodes, c) \div c
      num_parallel_calls ==
         (num_threads \div tp0) + (IF num_threads % tp0 # 0 THEN 1 ELSE 0)
      num_threads_per_recursion ==
         (num_threads \div num_parallel_calls)
            + (IF num_threads % num_parallel_calls # 0 THEN 1 ELSE 0)
  IN [i \in 1 .. num_parallel_calls |->
        ThreadsOfCall(num_threads_per_recursion, num_threads, i - 1)]

\* the parallel recursive calls; the one followed here is the one whose
\* result is taken
Recurse ==
  /\ Running /\ Top.pc = "initial_partitioning"
  /\ ~Top.no_further_contractions_possible
  /\ LET threads == RecursionThreads(Top.n, Top.num_threads, ContractionLimitForBipartitioning)
     IN \E i \in 1 .. Len(threads) :
          dm' = [dm EXCEPT !.frames =
                   <<NewFrame("initial_partitioning",
                              get_maximum_number_of_blocks(dm.tree, Top.n, dm.mult),
                              threads[i], Top.n, dm.mult),
                     [Top EXCEPT !.pc = "wait"]>> \o Tail(dm.frames)]
  /\ UNCHANGED DeepRest

\* the partition of the recursive call is applied to the coarsest hypergraph
ReturnFromRecursion ==
  /\ Running /\ Top.pc = "done" /\ Len(dm.frames) > 1
  /\ dm' = [dm EXCEPT !.frames =
              <<[dm.frames[2] EXCEPT !.ids = Top.ids, !.pc = "adapt"]>> \o Tail(Tail(dm.frames))]
  /\ UNCHANGED DeepRest

\* adapt_contraction_limit_for_recursive_bipartitioning(k)
adaptContractionLimit(f, k) ==
  [f EXCEPT !.current_k = k, !.next_k = nextK(dm.tree, k)]

\* ... called with the number of blocks of the coarsest partition
AdaptToCoarsestPartition ==
  /\ Running /\ Top.pc = "adapt"
  /\ LET k == get_current_k(Top.ids, Top.final_k)
     IN IF nextKThrows(dm.tree, k)
        THEN dm' = [dm EXCEPT !.out = "threw"]
        ELSE SetTop([adaptContractionLimit(Top, k) EXCEPT !.pc = "uncoarsen"])
  /\ UNCHANGED DeepRest

AtContractionLimitForRB(f) ==
  f.next_k # kInvalidPartition /\ f.n >= f.next_k * dm.mult

\* what refinement can leave: nodes in blocks below k or where they were
Refined(ids, n, k) == [1 .. n -> (0 .. (k - 1)) \cup Range(ids)]

\* every outcome of bipartition_each_block: one per choice of sides and, if a
\* node sits in a block >= current_k, per value read out of bounds
BipartitionOutcomes(f) ==
  LET GarbageChoices == IF \E i \in 1 .. f.n : f.ids[i] \notin 0 .. (f.current_k - 1)
                        THEN GarbageIds ELSE {0}
  IN { bipartition_each_block(dm.tree, f.ids, f.current_k, side, garbage) :
         side \in [1 .. f.n -> {0, 1}], garbage \in GarbageChoices }

RefinedOutcomes(S, n, k) ==
  UNION { [1 .. n -> (0 .. (k - 1)) \cup X] :
            X \in { Range(ids) \ (0 .. (k - 1)) : ids \in S } }

\* the body of both bipartitioning loops
BipartitionAndRefine(f) ==
  IF ~HasLevel(dm.tree, f.current_k)
  THEN dm' = [dm EXCEPT !.out = "threw"]
  ELSE LET g == adaptContractionLimit(f, f.next_k)
       IN \/ \E refined \in RefinedOutcomes(BipartitionOutcomes(f), f.n, g.current_k) :
               SetTop([g EXCEPT !.ids = refined])
          \* bipartitions[from] with from >= current_k may as well end the run
          \/ /\ \E i \in 1 .. f.n : f.ids[i] \notin 0 .. (f.current_k - 1)
             /\ dm' = [dm EXCEPT !.out = "crashed"]

BipartitionDuringUncoarsening ==
  /\ Running /\ Top.pc = "uncoarsen"
  /\ Top.levels # << >>
  /\ AtContractionLimitForRB(Top)
  /\ BipartitionAndRefine(Top)
  /\ UNCHANGED DeepRest

ProjectToNextLevelAndRefine ==
  /\ Running /\ Top.pc = "uncoarsen"
  /\ Top.levels # << >>
  /\ ~AtContractionLimitForRB(Top)
  /\ \E refined \in Refined(Top.ids, Head(Top.levels), Top.current_k) :
       SetTop([Top EXCEPT !.n = Head(Top.levels), !.levels = Tail(@), !.ids = refined])
  /\ UNCHANGED DeepRest

TopLevelGoesOn(f) ==
  AtContractionLimitForRB(f) \/ (f.type = "main" /\ f.current_k # f.final_k)

TopLevelBipartitioning ==
  /\ Running /\ Top.pc = "uncoarsen"
  /\ Top.levels = << >>
  /\ TopLevelGoesOn(Top)
  /\ BipartitionAndRefine(Top)
  /\ UNCHANGED DeepRest

\* the end of deep_multilevel_partitioning: the main call rebalances
FinishPartitioning ==
  /\ Running /\ Top.pc = "uncoarsen"
  /\ Top.levels = << >>
  /\ ~TopLevelGoesOn(Top)
  /\ IF Top.type = "main"
     THEN \E rebalanced \in Refined(Top.ids, Top.n, Top.current_k) :
            dm' = [dm EXCEPT !.frames[1] = [Top EXCEPT !.ids = rebalanced, !.pc = "done"],
                             !.rebalanced_at = Top.current_k,
                             !.out = "returned"]
     ELSE SetTop([Top EXCEPT !.pc = "done"])
  /\ UNCHANGED DeepRest

NextDeep ==
  \/ CoarseningPass
  \/ StopCoarsening
  \/ InitialBipartition
  \/ Recurse
  \/ ReturnFromRecursion
  \/ AdaptToCoarsestPartition
  \/ BipartitionDuringUncoarsening
  \/ ProjectToNextLevelAndRefine
  \/ TopLevelBipartitioning
  \/ FinishPartitioning

SpecDeep == InitDeep /\ [][NextDeep]_vars

\* C10: when the main call returns, the driver has reached current_k = k, the
\* rebalancer ran with current_k = k, and every node has a block id in [0, k).
C10_MainReturnsWithK ==
  dm.out = "returned" =>
     /\ Top.current_k = dm.k
     /\ dm.rebalanced_at = dm.k
     /\ \A i \in 1 .. Len(Top.ids) : Top.ids[i] \in 0 .. (dm.k - 1)

\* ===========================================================================
\* Flow-hypergraph builder (SequentialConstruction::constructFlowHypergraph)
\* ===========================================================================
NumFlowNodes == 4
NumFlowBlocks == 3
MaxFlowEdges == 2
MaxEdgeWeight == 2

FlowVertices == 0 .. (NumFlowNodes - 1)
FlowBlocks == 0 .. (NumFlowBlocks - 1)

\* the partitioned hypergraph the builder reads: node weights, block weights
\* and pin counts of a consistent partition
FlowNodeWeight(u) == 1 + (u % 2)
FlowPartWeight(pid, b) ==
  SumSet({ u \in FlowVertices : pid[u] = b }, [u \in FlowVertices |-> FlowNodeWeight(u)])
FlowPinCountInPart(pid, he_pins, b) ==
  Cardinality({ i \in 1 .. Len(he_pins) : pid[he_pins[i]] = b })

\* kahypar::math::hash of a flow pin; the hash of a net is the sum over its pins
PinHash(pin) == (pin * pin + 1) % 3

\* the pin lists a hyperedge of the subhypergraph may have: every set of two or
\* three vertices, in ascending and in descending order
RECURSIVE Reverse(_)
Reverse(q) == IF q = << >> THEN << >> ELSE Reverse(Tail(q)) \o <<Head(q)>>
PinLists ==
  LET sets == { P \in SUBSET FlowVertices : Cardinality(P) \in 2 .. 3 }
  IN { SortedSeq(P) : P \in sets } \cup { Reverse(SortedSeq(P)) : P \in sets }

TerminalWeight_Whole(part_weight, weight_of_block) == part_weight
\* lines 112 and 118: weight of the source and of the sink
TerminalWeight(part_weight, weight_of_block) == Max(0, part_weight - weight_of_block)

\* the lambda add_nodes (lines 96-106), from position i of sub_hg.nodes on
RECURSIVE add_nodes(_, _, _, _)
add_nodes(f, i, block, acc) ==
  IF i > Len(f.nodes) THEN acc
  ELSE LET hn == f.nodes[i]
       IN IF f.partID[hn] = block
            THEN add_nodes(f, i + 1, block,
                   [map     |-> acc.map @@ (hn :> acc.flow_hn),
                    weight  |-> acc.weight + FlowNodeWeight(hn),
                    flow_hn |-> acc.flow_hn + 1])
            ELSE add_nodes(f, i + 1, block, acc)

\* the lambda push_into_tmp_pins for a terminal (lines 123-131)
push_terminal(tmp_pins, pin) ==
  LET q == Append(tmp_pins, pin)
  IN [q EXCEPT ![1] = q[Len(q)], ![Len(q)] = q[1]]

sort_pins_Unsorted(tmp_pins, source, sink) == tmp_pins
\* lines 172-174: the pins behind a leading terminal are sorted
sort_pins(tmp_pins, source, sink) ==
  IF tmp_pins[1] \in {source, sink}
    THEN <<tmp_pins[1]>> \o SortedSeq(Range(Tail(tmp_pins)))
    ELSE SortedSeq(Range(tmp_pins))

RECURSIVE HashOf(_)
HashOf(q) == IF q = << >> THEN 0 ELSE PinHash(Head(q)) + HashOf(Tail(q))

\* DynamicIdenticalNetDetection::add_if_not_contained: the flow hyperedge
\* with these pins in the bucket of he_hash, or 0 (whfc::invalidHyperedge)
IdenticalNet(f, he_hash, he_pins) ==
  IF he_hash \notin DOMAIN f.hash_buckets THEN 0
  ELSE LET bucket == f.hash_buckets[he_hash]
           same == { i \in 1 .. Len(bucket) : f.flow_hes[bucket[i]].pins = he_pins }
       IN IF same = {} THEN 0
          ELSE bucket[CHOOSE i \in same : \A j \in same : i <= j]

add_if_not_contained(f, he, he_hash) ==
  IF he_hash \in DOMAIN f.hash_buckets
    THEN [f.hash_buckets EXCEPT ![he_hash] = Append(@, he)]
    ELSE f.hash_buckets @@ (he_hash :> <<he>>)

NonRemovableWeight_Always(connected_to_source_and_sink, he_weight) == he_weight
\* line 162
NonRemovableWeight(connected_to_source_and_sink, he_weight) ==
  IF connected_to_source_and_sink THEN he_weight ELSE 0

\* one iteration of the loop over sub_hg.hes (lines 135-195)
constructHyperedge(f, he) ==
  LET inside == SelectSeq(he.pins, LAMBDA p : p \in DOMAIN f.node_to_whfc)
      tmp0 == [i \in 1 .. Len(inside) |-> f.node_to_whfc[inside[i]]]
      outside == { p \in Range(he.pins) : p \notin DOMAIN f.node_to_whfc }
      connectToSource == \E p \in outside : f.partID[p] = f.block_0
      connectToSink == \E p \in outside : f.partID[p] = f.block_1
      is_cut == /\ FlowPinCountInPart(f.partID, he.pins, f.block_0) > 0
                /\ FlowPinCountInPart(f.partID, he.pins, f.block_1) > 0
      g == [f EXCEPT !.hes = Append(@, he),
                     !.total_cut = IF is_cut THEN @ + he.weight ELSE @]
      both == connectToSource /\ connectToSink
      tmp1 == IF connectToSource THEN push_terminal(tmp0, f.source)
              ELSE IF connectToSink THEN push_terminal(tmp0, f.sink)
              ELSE tmp0
      tmp_pins == sort_pins(tmp1, f.source, f.sink)
      he_hash == HashOf(tmp1)
      identical_net == IdenticalNet(f, he_hash, tmp_pins)
      current_he == Len(f.flow_hes) + 1
  IN IF he.dropped
       THEN [f EXCEPT !.hes = Append(@, he), !.rep = Append(@, 0)]
     ELSE IF both \/ tmp0 = << >>
       THEN [g EXCEPT !.non_removable_cut = @ + NonRemovableWeight(both, he.weight),
                      !.rep = Append(@, 0)]
     ELSE IF Len(tmp_pins) <= 1
       THEN [g EXCEPT !.rep = Append(@, 0)]
     ELSE IF identical_net = 0
       THEN [g EXCEPT !.flow_hes = Append(@, [pins |-> tmp_pins, capacity |-> he.weight]),
                      !.hash_buckets = add_if_not_contained(f, current_he, he_hash),
                      !.rep = Append(@, current_he)]
     ELSE [g EXCEPT !.flow_hes[identical_net].capacity = @ + he.weight,
                    !.rep = Append(@, identical_net)]

FlowRest == <<hg, part, thr, aux, co, cthr, dm, rb>>

InitFlow ==
  /\ hg = HgIdle /\ part = PartIdle /\ thr = ThrIdle /\ aux = AuxIdle
  /\ co = CoIdle /\ cthr = CthrIdle /\ dm = DmIdle
  /\ rb = RbIdle
  /\ \E pid \in [FlowVertices -> FlowBlocks], nodes \in SUBSET FlowVertices :
       /\ pid[0] = 0 /\ pid[1] = 1
       /\ fl = [ phase |-> "nodes", partID |-> pid, nodes |-> SortedSeq(nodes),
                 block_0 |-> 0, block_1 |-> 1,
                 hes |-> << >>, rep |-> << >>,
                 node_to_whfc |-> << >>, source |-> 0, sink |-> 0,
                 source_weight |-> 0, sink_weight |-> 0,
                 weight_of_block_0 |-> 0, weight_of_block_1 |-> 0,
                 total_cut |-> 0, non_removable_cut |-> 0,
                 flow_hes |-> << >>, hash_buckets |-> << >> ]

\* lines 92-121: source, nodes of block_0, sink, nodes of block_1
AddFlowNodes ==
  /\ fl.phase = "nodes"
  /\ LET a0 == add_nodes(fl, 1, fl.block_0, [map |-> << >>, weight |-> 0, flow_hn |-> 1])
         a1 == add_nodes(fl, 1, fl.block_1,
                         [map |-> a0.map, weight |-> 0, flow_hn |-> a0.flow_hn + 1])
         sw == TerminalWeight(FlowPartWeight(fl.partID, fl.block_0), a0.weight)
         tw == TerminalWeight(FlowPartWeight(fl.partID, fl.block_1), a1.weight)
     IN fl' = [fl EXCEPT !.phase = "hyperedges",
                         !.source = 0,
                         !.sink = a0.flow_hn,
                         !.node_to_whfc = a1.map,
                         !.source_weight = sw,
                         !.sink_weight = tw,
                         !.weight_of_block_0 = sw + a0.weight,
                         !.weight_of_block_1 = tw + a1.weight]
  /\ UNCHANGED FlowRest

\* lines 135-195 for the next hyperedge of sub_hg.hes
AddFlowHyperedge ==
  /\ fl.phase = "hyperedges"
  /\ Len(fl.hes) < MaxFlowEdges
  /\ \E he_pins \in PinLists, w \in 1 .. MaxEdgeWeight, dropped \in BOOLEAN :
       fl' = constructHyperedge(fl, [pins |-> he_pins, weight |-> w, dropped |-> dropped])
  /\ UNCHANGED FlowRest

ReportedCut_Kept(source_weight, sink_weight, cut) == cut
\* lines 197-201: a flow problem without source or without sink reports no cut
ReportedCut(source_weight, sink_weight, cut) ==
  IF source_weight = 0 \/ sink_weight = 0 THEN 0 ELSE cut

\* lines 197-219
FinishFlowConstruction ==
  /\ fl.phase = "hyperedges"
  /\ fl' = [fl EXCEPT
             !.phase = "done",
             !.non_removable_cut = ReportedCut(fl.source_weight, fl.sink_weight, @),
             !.total_cut = ReportedCut(fl.source_weight, fl.sink_weight, @)]
  /\ UNCHANGED FlowRest

NextFlow ==
  \/ AddFlowNodes
  \/ AddFlowHyperedge
  \/ FinishFlowConstruction

SpecFlow == InitFlow /\ [][NextFlow]_vars

\* ---- what the builder is expected to produce, computed from its input
HeIdx == 1 .. Len(fl.hes)
HeWeights == [i \in HeIdx |-> fl.hes[i].weight]
SubNodesIn(b) == { u \in Range(fl.nodes) : fl.partID[u] = b }
OutsidePinsIn(i, b) ==
  { p \in Range(fl.hes[i].pins) : p \notin Range(fl.nodes) /\ fl.partID[p] = b }
HasPinIn(i, b) == \E p \in Range(fl.hes[i].pins) : fl.partID[p] = b
IsCutHe(i) == HasPinIn(i, fl.block_0) /\ HasPinIn(i, fl.block_1)
IsNonRemovable(i) ==
  OutsidePinsIn(i, fl.block_0) # {} /\ OutsidePinsIn(i, fl.block_1) # {}
\* the set of flow pins of hyperedge i: its pins inside the flow problem and the
\* terminal it is connected to
FlowPinSet(i) ==
  { fl.node_to_whfc[p] : p \in Range(fl.hes[i].pins) \cap DOMAIN fl.node_to_whfc }
    \cup (IF OutsidePinsIn(i, fl.block_0) # {} THEN {fl.source}
          ELSE IF OutsidePinsIn(i, fl.block_1) # {} THEN {fl.sink} ELSE {})
Added == { i \in HeIdx : fl.rep[i] # 0 }

\* C11: among the hyperedges added to the flow network, two are represented by
\* the same flow hyperedge exactly if they have the same set of flow pins
\* (terminal included), whatever the order of their pins and of the hyperedges;
\* the capacity of a flow hyperedge is the sum of the weights of the hyperedges
\* it represents.
C11_IdenticalNetsMerged ==
  fl # FlIdle /\ fl.phase \in {"hyperedges", "done"} =>
    /\ \A i, j \in Added : (fl.rep[i] = fl.rep[j]) <=> (FlowPinSet(i) = FlowPinSet(j))
    /\ \A e \in 1 .. Len(fl.flow_hes) :
         /\ fl.flow_hes[e].capacity = SumSet({ i \in Added : fl.rep[i] = e }, HeWeights)
         /\ \A i \in Added : fl.rep[i] = e => Range(fl.flow_hes[e].pins) = FlowPinSet(i)

\* two hyperedges with different pin lists and different weights share one
\* flow hyperedge
C11_Witness ==
  /\ fl # FlIdle /\ fl.phase = "done"
  /\ \E i, j \in Added :
       /\ i < j /\ fl.rep[i] = fl.rep[j]
       /\ fl.hes[i].pins # fl.hes[j].pins
       /\ Range(fl.hes[i].pins) # Range(fl.hes[j].pins)
       /\ fl.hes[i].weight # fl.hes[j].weight
       /\ fl.source \in FlowPinSet(i)

\* C12: with non-zero source and sink weight the builder returns total_cut =
\* the weight of the non-droppable hyperedges with a pin in block_0 and a pin in
\* block_1, and non_removable_cut = the weight of those with a pin outside the
\* subhypergraph in block_0 and one outside it in block_1; the latter are not
\* added to the flow hypergraph.
C12_CutStatistics ==
  fl # FlIdle /\ fl.phase = "done" /\ fl.source_weight # 0 /\ fl.sink_weight # 0 =>
    /\ fl.total_cut =
         SumSet({ i \in HeIdx : ~fl.hes[i].dropped /\ IsCutHe(i) }, HeWeights)
    /\ fl.non_removable_cut =
         SumSet({ i \in HeIdx : ~fl.hes[i].dropped /\ IsNonRemovable(i) }, HeWeights)
    /\ \A i \in HeIdx : ~fl.hes[i].dropped /\ IsNonRemovable(i) => i \notin Added

\* one hyperedge is cut and non-removable, another is cut and part of the flow
\* hypergraph
C12_Witness ==
  /\ fl # FlIdle /\ fl.phase = "done" /\ fl.source_weight # 0 /\ fl.sink_weight # 0
  /\ fl.non_removable_cut > 0
  /\ fl.total_cut > fl.non_removable_cut
  /\ \E i \in HeIdx : IsCutHe(i) /\ ~IsNonRemovable(i) /\ i \in Added

\* C13: the source weighs max(0, partWeight(block_0) - c(N0)), the sink
\* max(0, partWeight(block_1) - c(N1)), and the reported weights of the two
\* blocks are the part weights.
C13_TerminalWeights ==
  fl # FlIdle /\ fl.phase \in {"hyperedges", "done"} =>
    LET c0 == SumSet(SubNodesIn(fl.block_0), [u \in FlowVertices |-> FlowNodeWeight(u)])
        c1 == SumSet(SubNodesIn(fl.block_1), [u \in FlowVertices |-> FlowNodeWeight(u)])
    IN /\ fl.source_weight = Max(0, FlowPartWeight(fl.partID, fl.block_0) - c0)
       /\ fl.sink_weight = Max(0, FlowPartWeight(fl.partID, fl.block_1) - c1)
       /\ fl.weight_of_block_0 = FlowPartWeight(fl.partID, fl.block_0)
       /\ fl.weight_of_block_1 = FlowPartWeight(fl.partID, fl.block_1)

C13_Witness ==
  /\ fl # FlIdle /\ fl.phase = "done"
  /\ SubNodesIn(fl.block_0) # {} /\ SubNodesIn(fl.block_1) # {}
  /\ fl.source_weight > 0 /\ fl.sink_weight = 0
  /\ fl.weight_of_block_0 > fl.source_weight

\* C14: if the subhypergraph holds every vertex of block_0 or every vertex of
\* block_1, the builder reports total_cut = 0 and non_removable_cut = 0 whatever
\* is cut between the blocks, and the reported block weights are still the part
\* weights.
C14_NoTerminalNoCut ==
  /\ fl # FlIdle /\ fl.phase = "done"
  /\ \/ { u \in FlowVertices : fl.partID[u] = fl.block_0 } \subseteq Range(fl.nodes)
     \/ { u \in FlowVertices : fl.partID[u] = fl.block_1 } \subseteq Range(fl.nodes)
  => /\ fl.total_cut = 0
     /\ fl.non_removable_cut = 0
     /\ fl.weight_of_block_0 = FlowPartWeight(fl.partID, fl.block_0)
     /\ fl.weight_of_block_1 = FlowPartWeight(fl.partID, fl.block_1)

\* every vertex of block_0 is in the subhypergraph and a hyperedge that is not
\* dropped is cut between the two blocks
C14_Witness ==
  /\ fl # FlIdle /\ fl.phase = "done"
  /\ { u \in FlowVertices : fl.partID[u] = fl.block_0 } \subseteq Range(fl.nodes)
  /\ fl.sink_weight > 0
  /\ \E i \in HeIdx : ~fl.hes[i].dropped /\ IsCutHe(i) /\ IsNonRemovable(i) = FALSE
  /\ fl.total_cut = 0

\* ===========================================================================
\* The recursive bipartitioning tree on its own (class RBTree)
\* ===========================================================================
MaxTreeK == 9

add_block_Single(target_level, k) == Append(target_level, target_level[Len(target_level)] + 1)
\* the lambda add_block (lines 201-204): the range of the new block starts
\* where the range of the block before it ends
add_block(target_level, k) == Append(target_level, target_level[Len(target_level)] + k)

\* _target_blocks of a level whose _desired_blocks are known from position i on
RECURSIVE add_blocks(_, _, _)
add_blocks(target_level, desired_level, i) ==
  IF i > Len(desired_level) THEN target_level
  ELSE add_blocks(add_block(target_level, desired_level[i]), desired_level, i + 1)

targetBlocksInFinalPartition(r, current_k, block) ==
  LET target_blocks == r.target_blocks[PartitionToLevel(r.desired_blocks, current_k)]
  IN <<target_blocks[block + 1], target_blocks[block + 2]>>

RBRest == <<hg, part, thr, aux, co, cthr, dm, fl>>

\* the constructor up to the call of precomputeRBTree (lines 97-117)
InitRB ==
  /\ hg = HgIdle /\ part = PartIdle /\ thr = ThrIdle /\ aux = AuxIdle
  /\ co = CoIdle /\ cthr = CthrIdle /\ dm = DmIdle
  /\ fl = FlIdle
  /\ \E k \in 2 .. MaxTreeK :
       rb = [ k |-> k,
              desired_blocks |-> << <<k>> >>,
              target_blocks |-> << <<0, k>> >>,
              should_continue |-> TRUE,
              phase |-> "building",
              query |-> << >>,
              path |-> <<1>> ]

\* one iteration of the while loop of precomputeRBTree (lines 221-238)
SplitLevel ==
  /\ rb.phase = "building"
  /\ rb.should_continue
  /\ LET cur == rb.desired_blocks[Len(rb.desired_blocks)]
         next == SplitFrom(cur, 1)
     IN rb' = [rb EXCEPT !.desired_blocks = Append(@, next),
                         !.target_blocks = Append(@, add_blocks(<<0>>, next, 1)),
                         !.should_continue = SplitGoesOn(cur)]
  /\ UNCHANGED RBRest

\* the loop has ended: _partition_to_level is filled (lines 240-242)
FinishTree ==
  /\ rb.phase = "building"
  /\ ~rb.should_continue
  /\ rb' = [rb EXCEPT !.phase = "ready"]
  /\ UNCHANGED RBRest

\* a caller asks for a block of a level of the tree
QueryTree ==
  /\ rb.phase = "ready"
  /\ \E current_k \in 1 .. rb.k :
       /\ HasLevel(rb.desired_blocks, current_k)
       /\ \E block \in 0 .. (current_k - 1) :
            rb' = [rb EXCEPT !.query =
                     [ current_k |-> current_k, block |-> block,
                       target  |-> targetBlocksInFinalPartition(rb, current_k, block),
                       desired |-> desiredNumberOfBlocks(rb.desired_blocks, current_k, block) ]]
  /\ UNCHANGED RBRest

\* the driver walks up the tree: next_k = rb_tree.nextK(current_k), starting
\* from a single block, until nextK has no further level to give
AdaptToNextK ==
  /\ rb.phase = "ready"
  /\ rb.path[Len(rb.path)] # kInvalidPartition
  /\ rb' = [rb EXCEPT !.path = Append(@, nextK(rb.desired_blocks, @[Len(@)]))]
  /\ UNCHANGED RBRest

NextRB ==
  \/ SplitLevel
  \/ FinishTree
  \/ QueryTree
  \/ AdaptToNextK

SpecRB == InitRB /\ [][NextRB]_vars

LevelSizes == { Len(rb.desired_blocks[l]) : l \in 1 .. Len(rb.desired_blocks) }

\* C15: for every level with k' blocks and every block b < k' the target blocks
\* are a non-empty range [lo, hi) of width desiredNumberOfBlocks(k', b); the
\* ranges of consecutive blocks are adjacent, the first starts at 0 and the
\* last ends at k.
C15_TargetBlocksPartition ==
  rb # RbIdle /\ rb.phase = "ready" =>
    \A kp \in LevelSizes :
       /\ targetBlocksInFinalPartition(rb, kp, 0)[1] = 0
       /\ targetBlocksInFinalPartition(rb, kp, kp - 1)[2] = rb.k
       /\ \A b \in 0 .. (kp - 1) :
            LET range == targetBlocksInFinalPartition(rb, kp, b)
            IN /\ range[1] < range[2]
               /\ range[2] - range[1] = desiredNumberOfBlocks(rb.desired_blocks, kp, b)
               /\ b + 1 < kp => targetBlocksInFinalPartition(rb, kp, b + 1)[1] = range[2]

\* k = 7, k' = 4, block 2 gives [4, 6)
C15_Witness ==
  /\ rb # RbIdle /\ rb.phase = "ready" /\ rb.k = 7
  /\ rb.query # << >>
  /\ rb.query.current_k = 4 /\ rb.query.block = 2
  /\ rb.query.target = <<4, 6>> /\ rb.query.desired = 2

\* position in the next level of the first child of entry i of a level
ChildPos(level, i) == i + Cardinality({ j \in 1 .. (i - 1) : level[j] > 1 })

\* C16: the root level is {k}; each next level replaces, in order, every entry
\* m > 1 by ceil(m/2) and floor(m/2) and keeps every 1; the construction stops
\* at the first level of 1s only, which has k entries; every level sums to k
\* and the level sizes strictly increase.
C16_TreeShape ==
  rb # RbIdle /\ rb.phase = "ready" =>
    LET tree == rb.desired_blocks
        n == Len(tree)
    IN /\ tree[1] = <<rb.k>>
       /\ \A l \in 1 .. n :
            SumSet(DOMAIN tree[l], tree[l]) = rb.k
       /\ \A l \in 1 .. (n - 1) :
            /\ \E i \in DOMAIN tree[l] : tree[l][i] > 1
            /\ Len(tree[l]) < Len(tree[l + 1])
            /\ Len(tree[l + 1]) = Len(tree[l]) + Cardinality({ i \in DOMAIN tree[l] : tree[l][i] > 1 })
            /\ \A i \in DOMAIN tree[l] :
                 LET m == tree[l][i]
                     c == ChildPos(tree[l], i)
                 IN IF m > 1
                      THEN /\ tree[l + 1][c] = (m + 1) \div 2
                           /\ tree[l + 1][c + 1] = m \div 2
                      ELSE tree[l + 1][c] = 1
       /\ tree[n] = [i \in 1 .. rb.k |-> 1]

\* k = 7: 7; 4,3; 2,2,2,1; seven 1s
C16_Witness ==
  /\ rb # RbIdle /\ rb.phase = "ready"
  /\ rb.desired_blocks = << <<7>>, <<4, 3>>, <<2, 2, 2, 1>>, <<1, 1, 1, 1, 1, 1, 1>> >>

\* the least e with 2^e >= k
RECURSIVE CeilLog2From(_, _)
CeilLog2From(k, e) == IF 2 ^ e >= k THEN e ELSE CeilLog2From(k, e + 1)
CeilLog2(k) == CeilLog2From(k, 0)

\* C25: for every level size k' < k, nextK(k') is the size of the level below
\* and k' < nextK(k') <= min(2 k', k); nextK(k) and nextK(kInvalidPartition)
\* are kInvalidPartition; the walk from 1 block goes through the level sizes
\* and arrives at k after exactly ceil(log2 k) applications of nextK.
C25_NextKClimbsTheTree ==
  rb # RbIdle /\ rb.phase = "ready" =>
    LET tree == rb.desired_blocks
    IN /\ \A l \in 1 .. Len(tree) :
            LET kp == Len(tree[l])
            IN kp < rb.k =>
                 /\ l < Len(tree)
                 /\ nextK(tree, kp) = Len(tree[l + 1])
                 /\ kp < nextK(tree, kp)
                 /\ nextK(tree, kp) <= Min(2 * kp, rb.k)
       /\ nextK(tree, rb.k) = kInvalidPartition
       /\ nextK(tree, kInvalidPartition) = kInvalidPartition
       /\ \A i \in 1 .. Len(rb.path) :
            /\ i <= CeilLog2(rb.k) => rb.path[i] \in 1 .. (rb.k - 1)
            /\ i = CeilLog2(rb.k) + 1 => rb.path[i] = rb.k
            /\ i > CeilLog2(rb.k) + 1 => rb.path[i] = kInvalidPartition

\* k = 9: the walk 1, 2, 4, 8, 9 takes four steps and then ends
C25_Witness ==
  /\ rb # RbIdle /\ rb.phase = "ready" /\ rb.k = 9
  /\ rb.path = <<1, 2, 4, 8, 9, kInvalidPartition>>

\* ===========================================================================
\* SpecBip: the rounds of bipartition_each_block on one level of the hierarchy
\* ===========================================================================
NumBipNodes == 4
MaxBipK == 5

BipNodes == 1 .. NumBipNodes

\* the driver before a round: a partition into current_k non-empty blocks,
\* current_k the size of a level of the tree above the leaves
InitBip ==
  /\ hg = HgIdle /\ part = PartIdle /\ thr = ThrIdle /\ aux = AuxIdle
  /\ co = CoIdle /\ cthr = CthrIdle /\ fl = FlIdle /\ rb = RbIdle
  /\ \E k \in 2 .. MaxBipK :
       LET tree == RBTree(k)
       IN \E current_k \in 1 .. (k - 1) :
            /\ HasLevel(tree, current_k)
            /\ \E ids \in [BipNodes -> 0 .. (current_k - 1)] :
                 /\ get_current_k(ids, k) = current_k
                 /\ dm = [ k |-> k,
                           desired_blocks |-> tree,
                           target_blocks |-> [l \in 1 .. Len(tree) |-> add_blocks(<<0>>, tree[l], 1)],
                           current_k |-> current_k,
                           ids |-> ids,
                           old_k |-> current_k, old |-> ids,
                           side |-> [i \in BipNodes |-> 0],
                           phase |-> "refined" ]

\* bipartition_each_block(current_phg, ..., current_k): the bipartition of a
\* block may put its nodes on the two sides in any way
BipartitionEachBlock ==
  /\ dm.phase = "refined"
  /\ nextK(dm.desired_blocks, dm.current_k) # kInvalidPartition
  /\ \A i \in BipNodes : dm.ids[i] \in 0 .. (dm.current_k - 1)
  /\ \E side \in [BipNodes -> {0, 1}] :
       dm' = [dm EXCEPT !.old = dm.ids, !.old_k = dm.current_k, !.side = side,
                        !.ids = bipartition_each_block(dm.desired_blocks, dm.ids,
                                                       dm.current_k, side, 0),
                        !.phase = "bipartitioned"]
  /\ UNCHANGED DeepRest

\* adapt_contraction_limit_for_recursive_bipartitioning(next_k) and
\* uncoarsener->refine()
AdaptAndRefine ==
  /\ dm.phase = "bipartitioned"
  /\ LET next_k == nextK(dm.desired_blocks, dm.current_k)
     IN \E refined \in [BipNodes -> 0 .. (next_k - 1)] :
          dm' = [dm EXCEPT !.current_k = next_k, !.ids = refined,
                           !.old_k = next_k, !.old = refined,
                           !.side = [i \in BipNodes |-> 0],
                           !.phase = "refined"]
  /\ UNCHANGED DeepRest

NextBip ==
  \/ BipartitionEachBlock
  \/ AdaptAndRefine

SpecBip == InitBip /\ [][NextBip]_vars

\* C26: after bipartition_each_block on a partition whose current_k blocks are
\* all non-empty, the number of leading non-empty blocks is nextK(current_k),
\* whatever sides the bipartitions give the nodes.
C26_BlocksAfterBipartition ==
  (dm # DmIdle /\ dm.phase = "bipartitioned" /\ get_current_k(dm.old, dm.k) = dm.old_k) =>
     get_current_k(dm.ids, dm.k) = nextK(dm.desired_blocks, dm.old_k)

MaxForkThreads == 8
MaxForkMultiplier == 2

\* the coarsening loop is about to test its invariant on current_num_nodes
InitFork ==
  /\ hg = HgIdle /\ part = PartIdle /\ thr = ThrIdle /\ aux = AuxIdle
  /\ co = CoIdle /\ cthr = CthrIdle /\ fl = FlIdle /\ rb = RbIdle
  /\ \E t \in 1 .. MaxForkThreads, mult \in 1 .. MaxForkMultiplier :
       \E n \in 1 .. (t * 2 * mult) :
          dm = [ num_threads |-> t,
                 contraction_limit_for_bipartitioning |-> 2 * mult,
                 current_num_nodes |-> n,
                 calls |-> << >>,
                 started |-> << >> ]

\* the invariant 't threads work on at least t * C nodes' is broken above the
\* contraction limit: coarsening stops and the recursive calls are forked
ForkRecursiveCalls ==
  /\ dm.calls = << >>
  /\ dm.current_num_nodes > dm.contraction_limit_for_bipartitioning
  /\ dm.current_num_nodes < dm.num_threads * dm.contraction_limit_for_bipartitioning
  /\ LET threads == RecursionThreads(dm.current_num_nodes, dm.num_threads,
                                     dm.contraction_limit_for_bipartitioning)
     IN dm' = [dm EXCEPT !.calls = threads,
                         !.started = [i \in 1 .. Len(threads) |-> "waiting"]]
  /\ UNCHANGED DeepRest

\* a recursive call enters its own coarsening loop on the same hypergraph
\* with its share of the threads
StartRecursiveCall ==
  /\ \E i \in 1 .. Len(dm.calls) :
       /\ dm.started[i] = "waiting"
       /\ dm' = [dm EXCEPT !.started[i] =
                   IF dm.current_num_nodes < dm.calls[i] * dm.contraction_limit_for_bipartitioning
                   THEN "forks" ELSE "coarsens"]
  /\ UNCHANGED DeepRest

NextFork ==
  \/ ForkRecursiveCalls
  \/ StartRecursiveCall

SpecFork == InitFork /\ [][NextFork]_vars

\* C28: when the driver forks, there is at least one call, every call has at
\* least one thread, the shares add up to the number of threads, every call
\* has at least (its threads) * C nodes, and no call forks at once again.
C28_ForkRestoresInvariant ==
  (dm # DmIdle /\ dm.calls # << >>) =>
     /\ Len(dm.calls) >= 1
     /\ \A i \in 1 .. Len(dm.calls) :
          /\ dm.calls[i] >= 1
          /\ dm.current_num_nodes >= dm.calls[i] * dm.contraction_limit_for_bipartitioning
          /\ dm.started[i] # "forks"
     /\ SumSet(DOMAIN dm.calls, dm.calls) = dm.num_threads

\* 7 threads on 5 nodes with C = 2: four calls with 2, 2, 2 and 1 threads
C28_Witness ==
  /\ dm # DmIdle /\ dm.calls # << >>
  /\ dm.num_threads = 7 /\ dm.current_num_nodes = 5
  /\ dm.contraction_limit_for_bipartitioning = 2
  /\ Len(dm.calls) = 4 /\ dm.calls[4] = 1
  /\ \A i \in 1 .. 4 : dm.started[i] = "coarsens"

\* ===========================================================================
\* SpecFM: localized k-way FM searches running side by side
\* ===========================================================================
MaxFruitlessMoves == 2
MaxPartWeight == 3

\* numeric_limits<HyperedgeWeight>::max()
MaxHyperedgeWeight == 2 ^ 30 + (2 ^ 30 - 1)

\* searchOfNode[u]: 0 for a node nobody has claimed, the id of a search, or
\* the marker of a node that was taken out of a queue to be moved
UnclaimedNode == 0
DeactivatedNodeMarker == NumThreads + 1
isSearchInactive(search_id) == search_id = UnclaimedNode

\* what a read of _part_info[kInvalidPartition].weight may give
GarbageWeights == {0, MaxPartWeight + 1}

\* the gain tables of the partitioned hypergraph for unit net weights
moveFromBenefit(h, p, u, from) ==
  Cardinality({ e \in incidentEdges(h, u) : pinCountInPart(p, e, from) = 1 })
moveToPenalty(h, p, u, to) ==
  Cardinality({ e \in incidentEdges(h, u) : pinCountInPart(p, e, to) = 0 })
km1Gain(h, p, u, from, to) == moveFromBenefit(h, p, u, from) - moveToPenalty(h, p, u, to)

\* phg.k()
phg_k(p) == Cardinality(DOMAIN p.weight)

\* the loop of bestDestinationBlock from block i on; the weight in the test
\* is partWeight(to) of the best block so far, read out of bounds while
\* to is still kInvalidPartition
RECURSIVE bestDestinationLoop(_, _, _, _, _, _, _, _)
bestDestinationLoop(h, p, u, max_part_weights, garbage, i, to, to_penalty) ==
  IF i >= phg_k(p) THEN <<to, to_penalty>>
  ELSE LET penalty   == moveToPenalty(h, p, u, i)
           weight_to == IF to = kInvalidPartition THEN garbage ELSE partWeight(p, to)
       IN IF penalty < to_penalty /\ weight_to + nodeWeight(h, u) <= max_part_weights[i]
          THEN bestDestinationLoop(h, p, u, max_part_weights, garbage, i + 1, i, penalty)
          ELSE bestDestinationLoop(h, p, u, max_part_weights, garbage, i + 1, to, to_penalty)

\* <<to, gain>>
bestDestinationBlock(h, p, u, max_part_weights, garbage) ==
  LET best == bestDestinationLoop(h, p, u, max_part_weights, garbage, 0,
                                  kInvalidPartition, MaxHyperedgeWeight)
  IN <<best[1], moveFromBenefit(h, p, u, partID(p, u)) - best[2]>>

\* ---- the queues of a search: blockPQ maps the blocks it holds to their
\* keys, vertexPQs maps the nodes it holds to <<block, key>>
PQHas(pq, x) == x \in DOMAIN pq
PQInsert(pq, x, key) == [y \in DOMAIN pq \cup {x} |-> IF y = x THEN key ELSE pq[y]]
PQRemove(pq, x) == [y \in DOMAIN pq \ {x} |-> pq[y]]
BlockTops(pq) == { b \in DOMAIN pq : \A c \in DOMAIN pq : pq[c] <= pq[b] }
VerticesOf(vpq, from) == { v \in DOMAIN vpq : vpq[v][1] = from }
VertexTops(vpq, from) ==
  { v \in VerticesOf(vpq, from) : \A x \in VerticesOf(vpq, from) : vpq[x][2] <= vpq[v][2] }

\* the pins the activation loop of findMoves runs over after a move of u, in
\* the order of the loop
RECURSIVE NeighborPins(_, _, _, _)
NeighborPins(h, u, hyperedge_size_threshold, i) ==
  IF i > Len(h.incident[u]) THEN << >>
  ELSE LET e == h.incident[u][i]
       IN (IF h.size[e] < hyperedge_size_threshold
           THEN SubSeq(h.pins[e], 1, h.size[e]) ELSE << >>)
          \o NeighborPins(h, u, hyperedge_size_threshold, i + 1)

NoMove == [node |-> 0, from |-> 0, to |-> 0, gain |-> 0]
IdleSearch ==
  [pc |-> "idle", u |-> 0, v |-> 0, searchOfU |-> 0, ret |-> "loop",
   blockPQ |-> << >>, vertexPQs |-> << >>, movesWithNonPositiveGain |-> 0,
   m |-> NoMove, todo |-> << >>, updateDeduplicator |-> {}, visited |-> << >>,
   moved |-> FALSE]

\* aux: searchOfNode of the node tracker, the limits of the context and the
\* number of moves in the shared move log. With a size threshold of NumNodes
\* the nets of two pins are below it and the net of all nodes is not.
InitFM ==
  /\ hg = HgIdle
  /\ \E pid \in [Nodes -> Blocks] : part = InitPartition(hg, pid)
  /\ thr = [t \in Threads |-> IdleSearch]
  /\ \E mw \in [Blocks -> (MaxPartWeight - 1) .. MaxPartWeight],
        min_part_weight \in 0 .. 1 :
       /\ \A b \in Blocks : partWeight(part, b) <= mw[b]
       /\ aux = [searchOfNode |-> [u \in Nodes |-> UnclaimedNode],
                 max_part_weights |-> mw,
                 min_part_weight |-> min_part_weight,
                 hyperedge_size_threshold |-> NumNodes,
                 moves |-> 0]
  /\ co = CoIdle /\ cthr = CthrIdle /\ dm = DmIdle
  /\ fl = FlIdle /\ rb = RbIdle

\* findMoves up to its first call of insertOrUpdatePQ; search t has the id t
findMoves(t, u) ==
  /\ thr[t].pc = "idle"
  /\ \A t2 \in Threads : t2 < t => thr[t2].pc # "idle"
  /\ thr' = [thr EXCEPT ![t] = [IdleSearch EXCEPT !.pc = "load", !.u = u, !.v = u,
                                                  !.ret = "loop"]]
  /\ UNCHANGED <<hg, part, aux, co, cthr, dm, fl, rb>>

\* insertOrUpdatePQ, line 145 and the branch taken on the loaded value
LoadSearchOfNode(t) ==
  /\ thr[t].pc = "load"
  /\ LET searchOfU == aux.searchOfNode[thr[t].v]
     IN thr' = [thr EXCEPT ![t].searchOfU = searchOfU,
                           ![t].pc = IF isSearchInactive(searchOfU) THEN "claim"
                                     ELSE IF searchOfU = t THEN "update"
                                     ELSE thr[t].ret,
                           ![t].v = IF isSearchInactive(searchOfU) \/ searchOfU = t
                                    THEN @ ELSE 0]
  /\ UNCHANGED <<hg, part, aux, co, cthr, dm, fl, rb>>

\* line 150
ClaimNode(t) ==
  /\ thr[t].pc = "claim"
  /\ LET u == thr[t].v
     IN IF compare_exchange_strong(aux.searchOfNode[u], thr[t].searchOfU)
        THEN /\ aux' = [aux EXCEPT !.searchOfNode[u] = t]
             /\ thr' = [thr EXCEPT ![t].pc = "insert"]
        ELSE /\ aux' = aux
             /\ thr' = [thr EXCEPT ![t].pc = thr[t].ret, ![t].v = 0]
  /\ UNCHANGED <<hg, part, co, cthr, dm, fl, rb>>

IncreaseBlockKey(blockPQ, from, gain) ==
  IF PQHas(blockPQ, from) /\ gain > blockPQ[from]
  THEN PQInsert(blockPQ, from, gain) ELSE blockPQ

\* lines 153-163
InsertIntoPQ(t) ==
  /\ thr[t].pc = "insert"
  /\ \E garbage \in GarbageWeights :
       LET u    == thr[t].v
           from == partID(part, u)
           gain == bestDestinationBlock(hg, part, u, aux.max_part_weights, garbage)[2]
           bpq  == IF ~PQHas(thr[t].blockPQ, from)
                      /\ partWeight(part, from) > aux.min_part_weight
                   THEN PQInsert(thr[t].blockPQ, from, gain) ELSE thr[t].blockPQ
       IN thr' = [thr EXCEPT ![t].blockPQ = IncreaseBlockKey(bpq, from, gain),
                             ![t].vertexPQs = PQInsert(@, u, <<from, gain>>),
                             ![t].v = 0,
                             ![t].pc = thr[t].ret]
  /\ UNCHANGED <<hg, part, aux, co, cthr, dm, fl, rb>>

\* lines 169-175; adjustKey of a node that is not in vertexPQs[from] is
\* undefined
UpdatePQ(t) ==
  /\ thr[t].pc = "update"
  /\ \E garbage \in GarbageWeights :
       LET u    == thr[t].v
           from == partID(part, u)
           gain == bestDestinationBlock(hg, part, u, aux.max_part_weights, garbage)[2]
       IN IF u \in VerticesOf(thr[t].vertexPQs, from)
          THEN thr' = [thr EXCEPT ![t].vertexPQs = PQInsert(@, u, <<from, gain>>),
                                  ![t].blockPQ = IncreaseBlockKey(@, from, gain),
                                  ![t].v = 0,
                                  ![t].pc = thr[t].ret]
          ELSE thr' = [thr EXCEPT ![t].pc = "undefined"]
  /\ UNCHANGED <<hg, part, aux, co, cthr, dm, fl, rb>>

\* vertexPQs[from].topKey() after the key of u was set to gain
TopKeyAfter(vpq, u, from, gain) ==
  LET q == PQInsert(vpq, u, <<from, gain>>)
  IN q[CHOOSE v \in VertexTops(q, from) : TRUE][2]

\* what findNextMove hands back for the node u it took from vertexPQs[from]:
\* km1Gain of a move to kInvalidPartition reads the pin counts of no block
AcceptMove(t, u, from, to, vpq) ==
  IF to = kInvalidPartition
  THEN thr' = [thr EXCEPT ![t].pc = "undefined"]
  ELSE thr' = [thr EXCEPT ![t].vertexPQs = vpq,
                          ![t].visited = << >>,
                          ![t].moved = FALSE,
                          ![t].m = [node |-> u, from |-> from, to |-> to,
                                    gain |-> km1Gain(hg, part, u, from, to)],
                          ![t].pc = "deactivate"]

\* the test of the while loop in findMoves and one round of the loop of
\* findNextMove. blockPQ keeps a block whose vertexPQ ran empty: top() of the
\* empty queue is undefined and may name any node
findNextMove(t) ==
  /\ thr[t].pc = "loop"
  /\ thr[t].movesWithNonPositiveGain < MaxFruitlessMoves
  /\ DOMAIN thr[t].blockPQ # {}
  /\ aux.moves < MaxMoves
  /\ \E from \in BlockTops(thr[t].blockPQ), garbage \in GarbageWeights :
       IF VerticesOf(thr[t].vertexPQs, from) = {}
       THEN \E u \in Nodes, accepted \in BOOLEAN :
              IF accepted
              THEN AcceptMove(t, u, from,
                     bestDestinationBlock(hg, part, u, aux.max_part_weights, garbage)[1],
                     thr[t].vertexPQs)
              ELSE thr' = [thr EXCEPT ![t].pc = "undefined"]
       ELSE \E u \in VertexTops(thr[t].vertexPQs, from) :
              LET estimated_gain == thr[t].vertexPQs[u][2]
                  best == bestDestinationBlock(hg, part, u, aux.max_part_weights, garbage)
                  to   == best[1]
                  gain == best[2]
              IN IF gain >= estimated_gain
                 THEN AcceptMove(t, u, from, to, PQRemove(thr[t].vertexPQs, u))
                 ELSE thr' = [thr EXCEPT
                        ![t].visited = << >>,
                        ![t].moved = FALSE,
                        ![t].vertexPQs = PQInsert(@, u, <<from, gain>>),
                        ![t].blockPQ =
                          PQInsert(@, from, TopKeyAfter(thr[t].vertexPQs, u, from, gain))]
  /\ UNCHANGED <<hg, part, aux, co, cthr, dm, fl, rb>>

\* the while loop of findMoves ends
EndSearch(t) ==
  /\ thr[t].pc = "loop"
  /\ \/ thr[t].movesWithNonPositiveGain >= MaxFruitlessMoves
     \/ DOMAIN thr[t].blockPQ = {}
  /\ thr' = [thr EXCEPT ![t].pc = "done", ![t].visited = << >>, ![t].moved = FALSE,
                        ![t].m = NoMove]
  /\ UNCHANGED <<hg, part, aux, co, cthr, dm, fl, rb>>

\* line 66
deactivateNode(t) ==
  /\ thr[t].pc = "deactivate"
  /\ aux' = [aux EXCEPT !.searchOfNode[thr[t].m.node] = DeactivatedNodeMarker]
  /\ thr' = [thr EXCEPT ![t].pc = "move"]
  /\ UNCHANGED <<hg, part, co, cthr, dm, fl, rb>>

\* lines 69-76: the move with its balance check against max_part_weight, which
\* the constructor took from max_part_weights[0]
TryMove(t) ==
  /\ thr[t].pc = "move"
  /\ LET m  == thr[t].m
         ok == FitsInto(partWeight(part, m.to), nodeWeight(hg, m.node),
                        aux.max_part_weights[0])
         p2 == changeNodePart(hg, part, m.node, m.from, m.to)
     IN IF ok
        THEN /\ part' = p2
             /\ aux' = [aux EXCEPT !.moves = @ + 1]
             /\ thr' = [thr EXCEPT
                  ![t].blockPQ = IF partWeight(p2, m.from) <= aux.min_part_weight
                                 THEN PQRemove(@, m.from) ELSE @,
                  ![t].movesWithNonPositiveGain = IF m.gain > 0 THEN 0 ELSE @ + 1,
                  ![t].todo = NeighborPins(hg, m.node, aux.hyperedge_size_threshold, 1),
                  ![t].visited = << >>,
                  ![t].moved = TRUE,
                  ![t].pc = "pins"]
        ELSE /\ part' = part
             /\ aux' = aux
             /\ thr' = [thr EXCEPT ![t].m = NoMove, ![t].pc = "loop"]
  /\ UNCHANGED <<hg, co, cthr, dm, fl, rb>>

\* lines 81-86 for the next pin v: the set is asked for the seed u of the
\* search, and u is what goes into it
VisitPin(t) ==
  /\ thr[t].pc = "pins"
  /\ thr[t].todo # << >>
  /\ LET v == Head(thr[t].todo)
         u == thr[t].u
     IN IF u \notin thr[t].updateDeduplicator
        THEN thr' = [thr EXCEPT ![t].updateDeduplicator = @ \cup {u},
                                ![t].visited = Append(@, v),
                                ![t].todo = Tail(@),
                                ![t].v = v,
                                ![t].ret = "pins",
                                ![t].pc = "load"]
        ELSE thr' = [thr EXCEPT ![t].todo = Tail(@)]
  /\ UNCHANGED <<hg, part, aux, co, cthr, dm, fl, rb>>

\* line 89
ClearDeduplicator(t) ==
  /\ thr[t].pc = "pins"
  /\ thr[t].todo = << >>
  /\ thr' = [thr EXCEPT ![t].updateDeduplicator = {}, ![t].pc = "loop"]
  /\ UNCHANGED <<hg, part, aux, co, cthr, dm, fl, rb>>

NextFM ==
  \E t \in Threads :
    \/ \E u \in Nodes : findMoves(t, u)
    \/ LoadSearchOfNode(t)
    \/ ClaimNode(t)
    \/ InsertIntoPQ(t)
    \/ UpdatePQ(t)
    \/ findNextMove(t)
    \/ EndSearch(t)
    \/ deactivateNode(t)
    \/ TryMove(t)
    \/ VisitPin(t)
    \/ ClearDeduplicator(t)

SpecFM == InitFM /\ [][NextFM]_vars

\* the pins of the nets of u below the size threshold
ActivationPins(u) ==
  UNION { pins(hg, e) : e \in { x \in incidentEdges(hg, u) :
                                  hg.size[x] < aux.hyperedge_size_threshold } }

\* C30: once the activation loop that follows a successful move of m.node is
\* over, insertOrUpdatePQ has run for every other pin of every net of m.node
\* below the size threshold, and for no pin twice
C30_NeighborsActivatedOnce ==
  \A t \in Threads :
    (thr[t].pc = "loop" /\ thr[t].moved) =>
      /\ ActivationPins(thr[t].m.node) \ {thr[t].m.node} \subseteq Range(thr[t].visited)
      /\ Cardinality(Range(thr[t].visited)) = Len(thr[t].visited)

\* C29: a search holds a node in its queues only while searchOfNode names that
\* search, so no two searches hold the same node, and a node that a search
\* takes out to move it is a node the search has claimed
C29_ClaimIsExclusive ==
  \A t \in Threads :
    /\ \A v \in DOMAIN thr[t].vertexPQs : aux.searchOfNode[v] = t
    /\ thr[t].pc = "insert" => aux.searchOfNode[thr[t].v] = t
    /\ thr[t].pc = "deactivate" => aux.searchOfNode[thr[t].m.node] = t

\* C33: whenever findNextMove looks at the queues, every block in blockPQ has
\* a vertex in its vertexPQ and its key is the key of the best vertex there
C33_BlockPQMirrorsVertexPQs ==
  \A t \in Threads :
    thr[t].pc = "loop" =>
      \A b \in DOMAIN thr[t].blockPQ :
        /\ VerticesOf(thr[t].vertexPQs, b) # {}
        /\ \E v \in VertexTops(thr[t].vertexPQs, b) :
             thr[t].blockPQ[b] = thr[t].vertexPQs[v][2]

\* C34: a search whose vertex queues are all empty has an empty blockPQ, so
\* that findNextMove returns false and findMoves stops; and a node that
\* findNextMove hands out to be moved has not been deactivated before
C34_SearchStops ==
  /\ [](\A t \in Threads :
          (thr[t].pc = "loop" /\ DOMAIN thr[t].vertexPQs = {}) =>
            DOMAIN thr[t].blockPQ = {})
  /\ [][\A t \in Threads :
          (thr[t].pc = "loop" /\ thr'[t].pc = "deactivate") =>
            aux.searchOfNode[thr'[t].m.node] # DeactivatedNodeMarker]_vars

\* ===========================================================================
\* SpecDest: one call of bestDestinationBlock and the move that follows it,
\* for a partition into NumDestBlocks blocks
\* ===========================================================================
NumDestBlocks == 3
DestBlocks == 0 .. (NumDestBlocks - 1)

\* InitPartition for the block ids in blocks
InitPartitionOf(h, pid, blocks) ==
  [ id     |-> pid,
    weight |-> [b \in blocks |->
                 SumSet({ u \in EnabledNodes(h) : pid[u] = b }, h.weight)],
    size   |-> [b \in blocks |->
                 Cardinality({ u \in EnabledNodes(h) : pid[u] = b })],
    pincnt |-> [e \in Edges |-> [b \in blocks |->
                 Cardinality(PinsInBlock(h, pid, e, b))]],
    conn   |-> [e \in Edges |->
                 { b \in blocks : PinsInBlock(h, pid, e, b) # {} }] ]

\* the block ids that bestDestinationBlock hands to phg.partWeight, from
\* block i of its loop on
RECURSIVE bestDestinationQueries(_, _, _, _, _, _, _, _)
bestDestinationQueries(h, p, u, max_part_weights, garbage, i, to, to_penalty) ==
  IF i >= phg_k(p) THEN {}
  ELSE LET penalty   == moveToPenalty(h, p, u, i)
           weight_to == IF to = kInvalidPartition THEN garbage ELSE partWeight(p, to)
       IN IF penalty < to_penalty
          THEN {to} \cup
               (IF weight_to + nodeWeight(h, u) <= max_part_weights[i]
                THEN bestDestinationQueries(h, p, u, max_part_weights, garbage,
                                            i + 1, i, penalty)
                ELSE bestDestinationQueries(h, p, u, max_part_weights, garbage,
                                            i + 1, to, to_penalty))
          ELSE bestDestinationQueries(h, p, u, max_part_weights, garbage,
                                      i + 1, to, to_penalty)

\* aux: the limits of the context, the node u, what bestDestinationBlock
\* returned for it and which block weights it asked for
InitDest ==
  /\ hg = HgIdle
  /\ \E pid \in [Nodes -> DestBlocks], mw \in [DestBlocks -> (MaxPartWeight - 1) .. MaxPartWeight] :
       /\ part = InitPartitionOf(hg, pid, DestBlocks)
       /\ \A b \in DestBlocks : partWeight(part, b) <= mw[b]
       /\ aux = [max_part_weights |-> mw, phase |-> "start", u |-> 0,
                 from |-> 0, to |-> 0, queried |-> {}]
  /\ thr = ThrIdle
  /\ co = CoIdle /\ cthr = CthrIdle /\ dm = DmIdle
  /\ fl = FlIdle /\ rb = RbIdle

\* findNextMove, lines 185-190, for the node u it took from the queue
FindDestination(u) ==
  /\ aux.phase = "start"
  /\ \E garbage \in GarbageWeights :
       aux' = [aux EXCEPT
         !.phase = "found",
         !.u = u,
         !.from = partID(part, u),
         !.to = bestDestinationBlock(hg, part, u, aux.max_part_weights, garbage)[1],
         !.queried = bestDestinationQueries(hg, part, u, aux.max_part_weights, garbage,
                                            0, kInvalidPartition, MaxHyperedgeWeight)]
  /\ UNCHANGED <<hg, part, thr, co, cthr, dm, fl, rb>>

\* findMoves, line 69: the balance check is made against max_part_weight,
\* which the constructor set to max_part_weights[0]
ApplyMove ==
  /\ aux.phase = "found"
  /\ aux.to # kInvalidPartition
  /\ IF FitsInto(partWeight(part, aux.to), nodeWeight(hg, aux.u), aux.max_part_weights[0])
     THEN /\ part' = changeNodePart(hg, part, aux.u, aux.from, aux.to)
          /\ aux' = [aux EXCEPT !.phase = "moved"]
     ELSE /\ part' = part
          /\ aux' = [aux EXCEPT !.phase = "rejected"]
  /\ UNCHANGED <<hg, thr, co, cthr, dm, fl, rb>>

NextDest ==
  \/ \E u \in Nodes : FindDestination(u)
  \/ ApplyMove

SpecDest == InitDest /\ [][NextDest]_vars

\* C38: what bestDestinationBlock returns for u is a block other than the
\* block of u into which u fits under that block's own maximum weight, or
\* kInvalidPartition if there is no such block; and the only block weights it
\* asks for are those of the blocks 0 .. k-1
FeasibleTargets(u) ==
  { b \in DestBlocks : /\ b # partID(part, u)
                       /\ partWeight(part, b) + nodeWeight(hg, u) <= aux.max_part_weights[b] }

C38_DestinationIsFeasible ==
  aux.phase = "found" =>
    /\ aux.queried \subseteq DestBlocks
    /\ IF FeasibleTargets(aux.u) = {} THEN aux.to = kInvalidPartition
       ELSE aux.to \in FeasibleTargets(aux.u)

\* C31: after a move that the search has applied, the target block is not
\* heavier than its own maximum part weight
C31_MoveRespectsTargetCap ==
  aux.phase = "moved" => partWeight(part, aux.to) <= aux.max_part_weights[aux.to]

\* ===========================================================================
\* SpecLog: concurrent performSharedDataUpdates calls of one generation
\* ===========================================================================
MaxLogMoves == 3
\* the first MoveID of the generation; smaller ids are left over from earlier
\* generations
FirstMoveID == 2

isIDStale(move_id) == move_id < FirstMoveID

\* the tests of the two CAS loops
\* faulty variant: a stale entry is taken for a move of this generation
LowersFirstMoveIn_NoStale(expected, move_id) == expected > move_id
LowersFirstMoveIn(expected, move_id) == isIDStale(expected) \/ expected > move_id
RaisesLastMoveOut(expected, move_id) == expected < move_id

\* he * numParts + block
LogCell(he, block) == he * NumBlocks + block
LogCells == 0 .. (NumEdges * NumBlocks - 1)

IdleUpdate == [pc |-> "idle", move_id |-> 0, node |-> 0, from |-> 0, to |-> 0,
               idx |-> 0, expected |-> 0]

\* aux.moves: the moves of the move tracker, the i-th has the id FirstMoveID + i - 1
InitLog ==
  /\ hg = HgIdle
  /\ part = PartIdle
  /\ thr = [t \in Threads |-> IdleUpdate]
  /\ \E stale_in \in 0 .. (FirstMoveID - 1), stale_out \in 0 .. (FirstMoveID - 1) :
       aux = [moves |-> << >>,
              first_move_in |-> [c \in LogCells |-> stale_in],
              last_move_out |-> [c \in LogCells |-> stale_out]]
  /\ co = CoIdle /\ cthr = CthrIdle /\ dm = DmIdle
  /\ fl = FlIdle /\ rb = RbIdle

\* line 115: insertMove hands out the next id and stores the move
insertMove(t, u, from, to) ==
  /\ thr[t].pc = "idle"
  /\ Len(aux.moves) < MaxLogMoves
  /\ from # to
  /\ aux' = [aux EXCEPT !.moves = Append(@, [node |-> u, from |-> from, to |-> to])]
  /\ thr' = [thr EXCEPT ![t] = [pc |-> "fmi_load", move_id |-> FirstMoveID + Len(aux.moves),
                                node |-> u, from |-> from, to |-> to,
                                idx |-> 1, expected |-> 0]]
  /\ UNCHANGED <<hg, part, co, cthr, dm, fl, rb>>

CurrentEdge(t) == hg.incident[thr[t].node][thr[t].idx]

\* line 120
LoadFirstMoveIn(t) ==
  /\ thr[t].pc = "fmi_load"
  /\ thr' = [thr EXCEPT ![t].expected = aux.first_move_in[LogCell(CurrentEdge(t), thr[t].to)],
                        ![t].pc = "fmi_cas"]
  /\ UNCHANGED <<hg, part, aux, co, cthr, dm, fl, rb>>

\* line 121: one round of the loop; a failed CAS reloads expected
UpdateFirstMoveIn(t) ==
  /\ thr[t].pc = "fmi_cas"
  /\ LET c == LogCell(CurrentEdge(t), thr[t].to)
     IN IF LowersFirstMoveIn(thr[t].expected, thr[t].move_id)
        THEN IF compare_exchange_strong(aux.first_move_in[c], thr[t].expected)
             THEN /\ aux' = [aux EXCEPT !.first_move_in[c] = thr[t].move_id]
                  /\ thr' = [thr EXCEPT ![t].pc = "lmo_load", ![t].expected = 0]
             ELSE /\ aux' = aux
                  /\ thr' = [thr EXCEPT ![t].expected = aux.first_move_in[c]]
        ELSE /\ aux' = aux
             /\ thr' = [thr EXCEPT ![t].pc = "lmo_load", ![t].expected = 0]
  /\ UNCHANGED <<hg, part, co, cthr, dm, fl, rb>>

\* line 125
LoadLastMoveOut(t) ==
  /\ thr[t].pc = "lmo_load"
  /\ thr' = [thr EXCEPT ![t].expected = aux.last_move_out[LogCell(CurrentEdge(t), thr[t].from)],
                        ![t].pc = "lmo_cas"]
  /\ UNCHANGED <<hg, part, aux, co, cthr, dm, fl, rb>>

\* line 126 and the step of the loop over the incident nets
UpdateLastMoveOut(t) ==
  /\ thr[t].pc = "lmo_cas"
  /\ LET c    == LogCell(CurrentEdge(t), thr[t].from)
         next == IF thr[t].idx < Len(hg.incident[thr[t].node])
                 THEN [thr[t] EXCEPT !.pc = "fmi_load", !.idx = @ + 1, !.expected = 0]
                 ELSE IdleUpdate
     IN IF RaisesLastMoveOut(thr[t].expected, thr[t].move_id)
        THEN IF compare_exchange_strong(aux.last_move_out[c], thr[t].expected)
             THEN /\ aux' = [aux EXCEPT !.last_move_out[c] = thr[t].move_id]
                  /\ thr' = [thr EXCEPT ![t] = next]
             ELSE /\ aux' = aux
                  /\ thr' = [thr EXCEPT ![t].expected = aux.last_move_out[c]]
        ELSE /\ aux' = aux
             /\ thr' = [thr EXCEPT ![t] = next]
  /\ UNCHANGED <<hg, part, co, cthr, dm, fl, rb>>

NextLog ==
  \E t \in Threads :
    \/ \E u \in Nodes, from \in Blocks, to \in Blocks : insertMove(t, u, from, to)
    \/ LoadFirstMoveIn(t)
    \/ UpdateFirstMoveIn(t)
    \/ LoadLastMoveOut(t)
    \/ UpdateLastMoveOut(t)

SpecLog == InitLog /\ [][NextLog]_vars

\* the ids of the moves of this generation that brought a pin of e into
\* block i, and of those that took one out of it
MovesInto(e, i) ==
  { FirstMoveID + n - 1 : n \in { x \in 1 .. Len(aux.moves) :
      aux.moves[x].to = i /\ e \in incidentEdges(hg, aux.moves[x].node) } }
MovesOutOf(e, i) ==
  { FirstMoveID + n - 1 : n \in { x \in 1 .. Len(aux.moves) :
      aux.moves[x].from = i /\ e \in incidentEdges(hg, aux.moves[x].node) } }

\* C32: the ids handed out are FirstMoveID, FirstMoveID + 1, ... in the order
\* of the calls; when no update is running, first_move_in[e*k+i] is the
\* smallest id of a move into block i of a net e and last_move_out[e*k+i] the
\* largest id of a move out of it (untouched where there was no such move);
\* an entry of first_move_in that is not stale only decreases and stays fresh,
\* an entry of last_move_out only increases
C32_MoveLogIsMonotone ==
  /\ [](\A a, b \in Threads :
          (a # b /\ thr[a].pc # "idle" /\ thr[b].pc # "idle") =>
            thr[a].move_id # thr[b].move_id)
  /\ []((\A t \in Threads : thr[t].pc = "idle") =>
          \A e \in Edges, i \in Blocks :
            /\ MovesInto(e, i) # {} =>
                 /\ aux.first_move_in[LogCell(e, i)] \in MovesInto(e, i)
                 /\ \A x \in MovesInto(e, i) : aux.first_move_in[LogCell(e, i)] <= x
            /\ MovesOutOf(e, i) # {} =>
                 /\ aux.last_move_out[LogCell(e, i)] \in MovesOutOf(e, i)
                 /\ \A x \in MovesOutOf(e, i) : aux.last_move_out[LogCell(e, i)] >= x)
  /\ [][\A c \in LogCells :
          /\ ~isIDStale(aux.first_move_in[c]) =>
               /\ aux'.first_move_in[c] <= aux.first_move_in[c]
               /\ ~isIDStale(aux'.first_move_in[c])
          /\ aux'.last_move_out[c] >= aux.last_move_out[c]]_vars

\* a later move has entered a cell first and the earlier move is about to
\* lower the entry; another cell still holds its stale entry
C32_Witness ==
  \E t \in Threads :
    /\ thr[t].pc = "fmi_cas"
    /\ ~isIDStale(thr[t].expected)
    /\ thr[t].expected > thr[t].move_id
    /\ aux.first_move_in[LogCell(CurrentEdge(t), thr[t].to)] = thr[t].expected
    /\ \E c \in LogCells : isIDStale(aux.first_move_in[c])

\* ===========================================================================
\* SpecDist: SequentialConstruction::determineDistanceFromCut on a finished
\* flow hypergraph
\* ===========================================================================
NumDistNodes == 6
MaxDistEdges == 3
DistNodes == 0 .. (NumDistNodes - 1)

\* the flow nodes are numbered as constructFlowHypergraph adds them: the
\* source, the nodes of block_0, the sink, the nodes of block_1
BlockOfFlowNode(u, sink) == IF u < sink THEN 0 ELSE 1

\* the pin sets a flow hyperedge can have: at least two pins, never both
\* terminals
DistPinSets(source, sink) ==
  { P \in SUBSET DistNodes : Cardinality(P) \in 2 .. 3 /\ ~(source \in P /\ sink \in P) }

\* the pins in the order of the flow hypergraph: a terminal first, the rest
\* sorted
DistPinList(P, source, sink) ==
  IF source \in P THEN <<source>> \o SortedSeq(P \ {source})
  ELSE IF sink \in P THEN <<sink>> \o SortedSeq(P \ {sink})
  ELSE SortedSeq(P)

\* lines 183-186: the net of the flow hyperedge has a pin in block_0 and a
\* pin in block_1; a pin outside the flow problem shows as the terminal
IsCutFlowHyperedge(P, source, sink) ==
  /\ \E p \in P : p = source \/ (p \notin {source, sink} /\ BlockOfFlowNode(p, sink) = 0)
  /\ \E p \in P : p = sink \/ (p \notin {source, sink} /\ BlockOfFlowNode(p, sink) = 1)

\* identical nets are merged, so the flow hyperedges have different pin
\* sets; they are listed in the order of this code
PinSetCode(P) == SumSet(P, [p \in DistNodes |-> 2 ^ p])

InitDist ==
  /\ hg = HgIdle /\ part = PartIdle /\ thr = ThrIdle /\ aux = AuxIdle
  /\ co = CoIdle /\ cthr = CthrIdle /\ dm = DmIdle
  /\ rb = RbIdle
  /\ \E sink \in 1 .. (NumDistNodes - 1), n \in 0 .. MaxDistEdges :
       \E hs \in [1 .. n -> DistPinSets(0, sink)] :
         /\ \A i, j \in 1 .. n : i < j => PinSetCode(hs[i]) < PinSetCode(hs[j])
         /\ fl = [ phase |-> "built", source |-> 0, sink |-> sink,
                   pinsOf |-> [i \in 1 .. n |-> DistPinList(hs[i], 0, sink)],
                   cut_hes |-> SortedSeq({ i \in 1 .. n : IsCutFlowHyperedge(hs[i], 0, sink) }),
                   distance |-> [u \in DistNodes |-> 0],
                   visited_hns |-> {}, visited_hes |-> {},
                   q |-> << >>, next_q |-> << >>, dist |-> 0,
                   max_dist_source |-> 0, max_dist_sink |-> 0 ]

\* the pins of the hyperedges hes (in this order) that are pushed into a
\* queue: no terminal, no visited node
RECURSIVE PushPins(_, _, _, _)
PushPins(f, pin_list, visited, queue) ==
  IF pin_list = << >> THEN [visited |-> visited, queue |-> queue]
  ELSE LET pin == Head(pin_list)
       IN IF pin # f.source /\ pin # f.sink /\ pin \notin visited
          THEN PushPins(f, Tail(pin_list), visited \cup {pin}, Append(queue, pin))
          ELSE PushPins(f, Tail(pin_list), visited, queue)

\* a loop over hyperedges: those not yet visited are marked and their pins
\* pushed. acc is [visited, visited_hes, queue]
RECURSIVE PushHyperedges(_, _, _, _)
PushHyperedges(f, hes, skip_visited, acc) ==
  IF hes = << >> THEN acc
  ELSE LET he == Head(hes)
       IN IF skip_visited /\ he \in acc.visited_hes
          THEN PushHyperedges(f, Tail(hes), skip_visited, acc)
          ELSE LET r == PushPins(f, f.pinsOf[he], acc.visited, acc.queue)
               IN PushHyperedges(f, Tail(hes), skip_visited,
                    [visited |-> r.visited, visited_hes |-> acc.visited_hes \cup {he},
                     queue |-> r.queue])

\* _flow_hg.hyperedgesOf(u)
hyperedgesOf(f, u) == SortedSeq({ he \in DOMAIN f.pinsOf : u \in Range(f.pinsOf[he]) })

\* lines 227-247
StartDistance ==
  /\ fl.phase = "built"
  /\ LET r == PushHyperedges(fl, fl.cut_hes, FALSE,
                [visited |-> {}, visited_hes |-> {}, queue |-> << >>])
     IN fl' = [fl EXCEPT !.phase = "bfs",
                         !.distance = [u \in DistNodes |-> 0],
                         !.visited_hns = r.visited,
                         !.visited_hes = r.visited_hes,
                         !.q = r.queue,
                         !.dist = 1]
  /\ UNCHANGED FlowRest

\* faulty variant: the distance grows with every node taken from the queue
NextHopDistance_PerNode(dist, q_is_empty) == dist + 1
\* lines 273-276
NextHopDistance(dist, q_is_empty) == IF q_is_empty THEN dist + 1 ELSE dist

\* lines 248-277: one round of the while loop
VisitFlowNode ==
  /\ fl.phase = "bfs"
  /\ fl.q # << >>
  /\ LET u          == Head(fl.q)
         block_of_u == BlockOfFlowNode(u, fl.sink)
         r == PushHyperedges(fl, hyperedgesOf(fl, u), TRUE,
                [visited |-> fl.visited_hns, visited_hes |-> fl.visited_hes,
                 queue |-> fl.next_q])
         q_is_empty == Tail(fl.q) = << >>
     IN fl' = [fl EXCEPT
          !.distance[u] = IF block_of_u = 0 THEN 0 - fl.dist ELSE fl.dist,
          !.max_dist_source = IF block_of_u = 0 THEN Max(@, fl.dist) ELSE @,
          !.max_dist_sink = IF block_of_u = 1 THEN Max(@, fl.dist) ELSE @,
          !.visited_hns = r.visited,
          !.visited_hes = r.visited_hes,
          !.q = IF q_is_empty THEN r.queue ELSE Tail(fl.q),
          !.next_q = IF q_is_empty THEN << >> ELSE r.queue,
          !.dist = NextHopDistance(fl.dist, q_is_empty)]
  /\ UNCHANGED FlowRest

\* lines 278-280
FinishDistance ==
  /\ fl.phase = "bfs"
  /\ fl.q = << >>
  /\ fl' = [fl EXCEPT !.phase = "done",
                      !.distance[fl.source] = 0 - (fl.max_dist_source + 1),
                      !.distance[fl.sink] = fl.max_dist_sink + 1]
  /\ UNCHANGED FlowRest

NextDist ==
  \/ StartDistance
  \/ VisitFlowNode
  \/ FinishDistance

SpecDist == InitDist /\ [][NextDist]_vars

\* ---- the distance from the cut, from its definition
InnerNodes == DistNodes \ {fl.source, fl.sink}
PinSetOf(he) == Range(fl.pinsOf[he]) \ {fl.source, fl.sink}

\* the inner nodes at most d hyperedges away from the cut
RECURSIVE WithinHops(_)
WithinHops(d) ==
  IF d = 0 THEN {}
  ELSE IF d = 1 THEN UNION { PinSetOf(fl.cut_hes[i]) : i \in 1 .. Len(fl.cut_hes) }
  ELSE LET near == WithinHops(d - 1)
       IN near \cup UNION { PinSetOf(he) : he \in { x \in DOMAIN fl.pinsOf :
                                                     PinSetOf(x) \cap near # {} } }

HopsFromCut(u) ==
  IF u \notin WithinHops(NumDistNodes) THEN 0
  ELSE CHOOSE d \in 1 .. NumDistNodes : u \in WithinHops(d) /\ u \notin WithinHops(d - 1)

MaxHops(block) ==
  LET ds == { HopsFromCut(u) : u \in { x \in InnerNodes : BlockOfFlowNode(x, fl.sink) = block } }
  IN IF ds = {} THEN 0 ELSE CHOOSE d \in ds : \A x \in ds : x <= d

\* C35: when determineDistanceFromCut is done, an inner node d hyperedges
\* away from the cut has the distance -d in block_0 and +d in block_1, a node
\* that cannot be reached has 0, the source has -(max_0 + 1) and the sink
\* max_1 + 1, below and above the distance of every other node
C35_DistanceFromCut ==
  fl.phase = "done" =>
    /\ \A u \in InnerNodes :
         fl.distance[u] = IF BlockOfFlowNode(u, fl.sink) = 0
                          THEN 0 - HopsFromCut(u) ELSE HopsFromCut(u)
    /\ fl.distance[fl.source] = 0 - (MaxHops(0) + 1)
    /\ fl.distance[fl.sink] = MaxHops(1) + 1
    /\ \A u \in DistNodes \ {fl.source} : fl.distance[fl.source] < fl.distance[u]
    /\ \A u \in DistNodes \ {fl.sink} : fl.distance[u] < fl.distance[fl.sink]

\* nodes of block_0 one, two and three hyperedges away from a cut hyperedge
\* that holds the sink, a node of block_1 next to the cut, and a node that is
\* not reached
C35_Witness ==
  /\ fl.phase = "done"
  /\ \E a, b, c, d \in InnerNodes :
       /\ fl.distance[a] = -1 /\ fl.distance[b] = -2 /\ fl.distance[c] = -3
       /\ fl.distance[d] = 0
  /\ fl.distance[fl.source] = -4
  /\ \E i \in 1 .. Len(fl.cut_hes) : fl.sink \in Range(fl.pinsOf[fl.cut_hes[i]])

\* ===========================================================================
\* SpecSelect: select_best_partition over the results of the recursive calls
\* ===========================================================================
MaxResults == 3
MaxObjective == 2

\* is_balanced for a result with the block weights weights and the
\* maximum part weights of the tree for its number of blocks
RECURSIVE is_balanced_from(_, _, _, _)
is_balanced_from(weights, max_part_weights, k, i) ==
  IF i >= k THEN TRUE
  ELSE weights[i] <= max_part_weights[i]
       /\ is_balanced_from(weights, max_part_weights, k, i + 1)
is_balanced(weights, max_part_weights) ==
  is_balanced_from(weights, max_part_weights, Cardinality(DOMAIN weights), 0)

\* the test of the selection loop: result i replaces the best one so far
\* faulty variant: the balance of the results is not looked at
IsBetterPartition_ObjectiveOnly(balanced_i, balanced_best, objective_i, objective_best) ==
  objective_i < objective_best
IsBetterPartition(balanced_i, balanced_best, objective_i, objective_best) ==
  \/ balanced_i /\ ~balanced_best
  \/ /\ (~balanced_i /\ ~balanced_best) \/ (balanced_i /\ balanced_best)
     /\ objective_i < objective_best

\* dm.partitions: the results, numbered from 0; each has its objective and
\* the weights of its two blocks
InitSelect ==
  /\ hg = HgIdle /\ part = PartIdle /\ thr = ThrIdle /\ aux = AuxIdle
  /\ co = CoIdle /\ cthr = CthrIdle /\ fl = FlIdle /\ rb = RbIdle
  /\ \E n \in 1 .. MaxResults, mw \in [Blocks -> (MaxPartWeight - 1) .. MaxPartWeight] :
       \E ps \in [0 .. (n - 1) -> [objective : 0 .. MaxObjective,
                                   weights : [Blocks -> (MaxPartWeight - 1) .. MaxPartWeight]]] :
         dm = [ partitions |-> ps, max_part_weights |-> mw,
                objectives |-> [i \in 0 .. (n - 1) |-> 0],
                isBalanced |-> [i \in 0 .. (n - 1) |-> FALSE],
                computed |-> {}, phase |-> "compute", best_idx |-> 0, i |-> 1 ]

\* lines 399-405: the task of result i
ComputeObjectiveAndBalance(i) ==
  /\ dm.phase = "compute"
  /\ i \in DOMAIN dm.partitions
  /\ i \notin dm.computed
  /\ dm' = [dm EXCEPT !.objectives[i] = dm.partitions[i].objective,
                      !.isBalanced[i] = is_balanced(dm.partitions[i].weights,
                                                    dm.max_part_weights),
                      !.computed = @ \cup {i}]
  /\ UNCHANGED <<hg, part, thr, aux, co, cthr, fl, rb>>

\* line 406
WaitForTasks ==
  /\ dm.phase = "compute"
  /\ dm.computed = DOMAIN dm.partitions
  /\ dm' = [dm EXCEPT !.phase = "select"]
  /\ UNCHANGED <<hg, part, thr, aux, co, cthr, fl, rb>>

\* lines 410-417: one round of the loop
ComparePartition ==
  /\ dm.phase = "select"
  /\ dm.i < Cardinality(DOMAIN dm.partitions)
  /\ dm' = [dm EXCEPT
       !.best_idx = IF IsBetterPartition(dm.isBalanced[dm.i], dm.isBalanced[dm.best_idx],
                                         dm.objectives[dm.i], dm.objectives[dm.best_idx])
                    THEN dm.i ELSE @,
       !.i = @ + 1]
  /\ UNCHANGED <<hg, part, thr, aux, co, cthr, fl, rb>>

\* line 419
ReturnBestPartition ==
  /\ dm.phase = "select"
  /\ dm.i >= Cardinality(DOMAIN dm.partitions)
  /\ dm' = [dm EXCEPT !.phase = "returned"]
  /\ UNCHANGED <<hg, part, thr, aux, co, cthr, fl, rb>>

NextSelect ==
  \/ \E i \in 0 .. (MaxResults - 1) : ComputeObjectiveAndBalance(i)
  \/ WaitForTasks
  \/ ComparePartition
  \/ ReturnBestPartition

SpecSelect == InitSelect /\ [][NextSelect]_vars

ResultIsBalanced(j) ==
  \A b \in Blocks : dm.partitions[j].weights[b] <= dm.max_part_weights[b]

MaxMultiplier == 3

MaxQueryNodes == 12

BlocksRest == <<hg, part, thr, aux, co, cthr, dm, fl>>

\* the tree of the constructor; nothing has been asked yet
InitBlocks ==
  /\ hg = HgIdle /\ part = PartIdle /\ thr = ThrIdle /\ aux = AuxIdle
  /\ co = CoIdle /\ cthr = CthrIdle /\ dm = DmIdle
  /\ fl = FlIdle
  /\ \E k \in 2 .. MaxTreeK, mult \in 1 .. MaxMultiplier :
       rb = [ k |-> k,
              contraction_limit_multiplier |-> mult,
              desired_blocks |-> RBTree(k),
              last |-> << >>,
              answer |-> << >> ]

\* r_context.partition.k = rb_tree.get_maximum_number_of_blocks(initialNumNodes())
AskMaximumNumberOfBlocks(current_num_nodes) ==
  /\ rb' = [rb EXCEPT
              !.last = rb.answer,
              !.answer = [ n |-> current_num_nodes,
                           k |-> get_maximum_number_of_blocks(
                                    rb.desired_blocks, current_num_nodes,
                                    rb.contraction_limit_multiplier) ]]
  /\ UNCHANGED BlocksRest

NextBlocks == \E n \in 1 .. MaxQueryNodes : AskMaximumNumberOfBlocks(n)

SpecBlocks == InitBlocks /\ [][NextBlocks]_vars

MaxLoopK == 8

MaxLoopNodes == 10

MaxLoopMultiplier == 2

NumLoopThreads == 2

\* minimum_shrink_factor: the values of ShrinkFactors and one below 1
LoopShrinkFactors == ShrinkFactors \cup { <<1, 2>> }

\* std::ceil(max_allowed_weight_multiplier / (actual_k * contraction_limit_multiplier)
\*           * totalWeight) for max_allowed_weight_multiplier = 1 (lines 543-545)
AdaptedNodeWeight(actual_k, contraction_limit_multiplier, total_weight) ==
  LET d == actual_k * contraction_limit_multiplier
  IN (total_weight + d - 1) \div d

LoopRest == <<hg, part, thr, aux, cthr, dm, fl, rb>>

\* lines 533-558: the state before the first call of adapt_max_allowed_node_weight
InitLoop ==
  /\ hg = HgIdle /\ part = PartIdle /\ thr = ThrIdle /\ aux = AuxIdle
  /\ cthr = CthrIdle /\ dm = DmIdle /\ fl = FlIdle /\ rb = RbIdle
  /\ \E k \in 2 .. MaxLoopK, n \in 2 .. MaxLoopNodes, mult \in 1 .. MaxLoopMultiplier,
        f \in LoopShrinkFactors, rec \in BOOLEAN, t \in 1 .. NumLoopThreads :
       co = [ k |-> k,
              contraction_limit_multiplier |-> mult,
              contraction_limit |-> 2 * mult,
              minimum_shrink_factor |-> f,
              perform_parallel_recursion |-> rec,
              num_threads |-> t,
              total_weight |-> n,
              num_nodes |-> n,
              actual_k |-> Max(Min(k, n \div mult), 2),
              max_allowed_node_weight |-> AdaptedNodeWeight(k, mult, n),
              should_continue |-> TRUE,
              no_further_contractions_possible |-> TRUE,
              pc |-> "l559",
              head |-> << >>,
              returned |-> "none" ]

\* the test of the while loop of adapt_max_allowed_node_weight (lines 540-541)
AdaptGoesOn(c) ==
  /\ c.num_nodes <= c.actual_k * c.contraction_limit \/ ~c.should_continue
  /\ c.actual_k > 2

\* the test of the coarsening loop (line 570)
LoopGoesOn(c) == c.num_nodes > c.contraction_limit /\ c.should_continue

\* lines 581-582
BreaksForRecursion(c) ==
  c.perform_parallel_recursion /\ c.num_nodes < c.num_threads * c.contraction_limit

\* line 559: the call before the loop
CallAdaptBeforeLoop ==
  /\ co.pc = "l559"
  /\ co' = [co EXCEPT !.pc = "adapt"]
  /\ UNCHANGED LoopRest

\* one turn of the while loop of adapt_max_allowed_node_weight (lines 542-546)
HalveActualK ==
  /\ co.pc = "adapt"
  /\ AdaptGoesOn(co)
  /\ LET actual_k == Max(co.actual_k \div 2, 2)
     IN co' = [co EXCEPT !.actual_k = actual_k,
                         !.max_allowed_node_weight =
                            AdaptedNodeWeight(actual_k, co.contraction_limit_multiplier,
                                                 co.total_weight),
                         !.should_continue = TRUE]
  /\ UNCHANGED LoopRest

\* adapt_max_allowed_node_weight returns
ReturnFromAdapt ==
  /\ co.pc = "adapt"
  /\ ~AdaptGoesOn(co)
  /\ co' = [co EXCEPT !.pc = "l570"]
  /\ UNCHANGED LoopRest

\* lines 570-587: the loop goes on and the pass runs; the clustering leaves
\* current_num_nodes clusters, and the pass contracts them or gives up
\* (multilevel_coarsener.h 256-261)
RunCoarseningPass ==
  /\ co.pc = "l570"
  /\ LoopGoesOn(co) /\ ~BreaksForRecursion(co)
  /\ \E current_num_nodes \in 1 .. co.num_nodes :
       LET gives_up == ReductionTooSmall(co.num_nodes, current_num_nodes,
                                         co.minimum_shrink_factor)
       IN co' = [co EXCEPT
                   !.head = [ num_nodes |-> co.num_nodes, actual_k |-> co.actual_k,
                              max_allowed_node_weight |-> co.max_allowed_node_weight ],
                   !.num_nodes = IF gives_up THEN @ ELSE current_num_nodes,
                   !.should_continue = ~gives_up,
                   !.returned = IF gives_up THEN "false" ELSE "true",
                   !.pc = "adapt"]
  /\ UNCHANGED LoopRest

\* lines 583-584: break for the parallel recursion
BreakLoop ==
  /\ co.pc = "l570"
  /\ LoopGoesOn(co) /\ BreaksForRecursion(co)
  /\ co' = [co EXCEPT !.no_further_contractions_possible = FALSE, !.pc = "done"]
  /\ UNCHANGED LoopRest

\* line 570: the test of the loop fails
LeaveLoop ==
  /\ co.pc = "l570"
  /\ ~LoopGoesOn(co)
  /\ co' = [co EXCEPT !.pc = "done"]
  /\ UNCHANGED LoopRest

NextLoop ==
  \/ CallAdaptBeforeLoop
  \/ HalveActualK
  \/ ReturnFromAdapt
  \/ RunCoarseningPass
  \/ BreakLoop
  \/ LeaveLoop

SpecLoop == InitLoop /\ [][NextLoop]_vars

\* the loop is run by one thread that always takes its next step
SpecLoopFair == SpecLoop /\ WF_vars(NextLoop)

ShrinkFactorAtLeastOne ==
  co.minimum_shrink_factor[1] >= co.minimum_shrink_factor[2]

\* what an iteration that has come back to the test of the loop has done
IterationMadeProgress ==
  \/ co.num_nodes < co.head.num_nodes /\ co.returned = "true"
  \/ /\ co.actual_k < co.head.actual_k /\ co.actual_k >= 2
     /\ co.max_allowed_node_weight > co.head.max_allowed_node_weight
  \/ ~LoopGoesOn(co)

\* C40: for minimum_shrink_factor >= 1 the coarsening loop terminates: every
\* iteration has reduced the number of nodes (the pass returned true), or has
\* halved actual_k towards 2 and raised max_allowed_node_weight, or is
\* followed by the end of the loop; should_continue is set again only by
\* adapt_max_allowed_node_weight with actual_k > 2; and the while loop of
\* adapt_max_allowed_node_weight always terminates.
C40_CoarseningLoopTerminates ==
  /\ [](ShrinkFactorAtLeastOne /\ co.pc = "l570" /\ co.head # << >>
          => IterationMadeProgress)
  /\ [][ShrinkFactorAtLeastOne /\ co'.returned = "true" /\ co'.head # co.head
          => co'.num_nodes < co.num_nodes]_vars
  /\ [][~co.should_continue /\ co'.should_continue
          => co.pc = "adapt" /\ co.actual_k > 2 /\ co'.actual_k < co.actual_k]_vars
  /\ (ShrinkFactorAtLeastOne ~> co.pc = "done")
  /\ (co.pc = "adapt" ~> co.pc # "adapt")

\* after a pass that contracted, a pass has given up with actual_k = 3:
\* actual_k is 2 now, max_allowed_node_weight is larger and the loop goes on
C40_Witness ==
  /\ co.pc = "l570" /\ ShrinkFactorAtLeastOne
  /\ co.head # << >> /\ co.returned = "false"
  /\ co.actual_k = 2 /\ co.head.actual_k = 3
  /\ co.max_allowed_node_weight > co.head.max_allowed_node_weight
  /\ co.num_nodes < co.total_weight
  /\ LoopGoesOn(co)

=============================================================================
